---------------------------- MODULE Spec2Model ----------------------------
(***************************************************************************)
(* A model of generate_dev_files.py: the content catalog                   *)
(* (LANGUAGE_CONTENT, get_content_for_topic) and the file populator        *)
(* (create_files_for_directory, main).                                     *)
(*                                                                         *)
(* Text is modelled character by character: a Python str is a sequence     *)
(* with one element per character.  An ASCII character is the one-letter   *)
(* string, "\n" is the newline, and the backquote and the characters       *)
(* outside ASCII are named by their code point ("U+0060", "U+00B2").       *)
(***************************************************************************)
EXTENDS Integers, Sequences, FiniteSets, TLC

\* the developer name "ghonDou"
ghonDou ==
    <<"g", "h", "o", "n", "D", "o", "u">>

\* the developer name "sarahLee"
sarahLee ==
    <<"s", "a", "r", "a", "h", "L", "e", "e">>

\* the developer name "alexChen"
alexChen ==
    <<"a", "l", "e", "x", "C", "h", "e", "n">>

\* the developer name "mariaSilva"
mariaSilva ==
    <<"m", "a", "r", "i", "a", "S", "i", "l", "v", "a">>

\* the developer name "johnSmith"
johnSmith ==
    <<"j", "o", "h", "n", "S", "m", "i", "t", "h">>

\* the developer name "linaWang"
linaWang ==
    <<"l", "i", "n", "a", "W", "a", "n", "g">>

\* the developer name "davidJones"
davidJones ==
    <<"d", "a", "v", "i", "d", "J", "o", "n", "e", "s">>

\* the developer name "annaKowalski"
annaKowalski ==
    <<"a", "n", "n", "a", "K", "o", "w", "a", "l", "s", "k", "i">>

\* the developer name "rajPatel"
rajPatel ==
    <<"r", "a", "j", "P", "a", "t", "e", "l">>

\* the developer name "emmaWhite"
emmaWhite ==
    <<"e", "m", "m", "a", "W", "h", "i", "t", "e">>

\* Developer names, in the order of the list
DEVELOPERS ==
    <<ghonDou, sarahLee, alexChen, mariaSilva, johnSmith, linaWang, davidJones, annaKowalski, rajPatel, emmaWhite>>

\* the language label "golang"
golang ==
    <<"g", "o", "l", "a", "n", "g">>

\* the language label "python"
python ==
    <<"p", "y", "t", "h", "o", "n">>

\* the language label "javascript"
javascript ==
    <<"j", "a", "v", "a", "s", "c", "r", "i", "p", "t">>

\* the language label "react"
react ==
    <<"r", "e", "a", "c", "t">>

\* the topic name "code-styling"
code_styling ==
    <<"c", "o", "d", "e", "-", "s", "t", "y", "l", "i", "n", "g">>

\* the topic name "error-handling"
error_handling ==
    <<"e", "r", "r", "o", "r", "-", "h", "a", "n", "d", "l", "i", "n", "g">>

\* the topic name "testing"
testing ==
    <<"t", "e", "s", "t", "i", "n", "g">>

\* the topic name "concurrency"
concurrency ==
    <<"c", "o", "n", "c", "u", "r", "r", "e", "n", "c", "y">>

\* the topic name "performance"
performance ==
    <<"p", "e", "r", "f", "o", "r", "m", "a", "n", "c", "e">>

\* the topic name "packaging"
packaging ==
    <<"p", "a", "c", "k", "a", "g", "i", "n", "g">>

\* the topic name "async"
async ==
    <<"a", "s", "y", "n", "c">>

\* the topic name "modules"
modules ==
    <<"m", "o", "d", "u", "l", "e", "s">>

\* the topic name "components"
components ==
    <<"c", "o", "m", "p", "o", "n", "e", "n", "t", "s">>

\* the topic name "hooks"
hooks ==
    <<"h", "o", "o", "k", "s">>

\* the topic name "state-management"
state_management ==
    <<"s", "t", "a", "t", "e", "-", "m", "a", "n", "a", "g", "e", "m", "e", "n", "t">>

\* the body catalogued for ("golang", "code-styling"), one element per character
content_golang_code_styling ==
    <<"#", " ", "G", "o", "l", "a", "n", "g", " ", "C", "o", "d", "e", " ", "S", "t", "y", "l", "i",
      "n", "g", " ", "G", "u", "i", "d", "e", "l", "i", "n", "e", "s", "\n", "\n", "#", "#", " ",
      "G", "e", "n", "e", "r", "a", "l", " ", "P", "r", "i", "n", "c", "i", "p", "l", "e", "s", "\n",
      "-", " ", "U", "s", "e", " ", "U+0060", "g", "o", "f", "m", "t", "U+0060", " ", "t", "o", " ",
      "f", "o", "r", "m", "a", "t", " ", "y", "o", "u", "r", " ", "c", "o", "d", "e", " ", "a", "u",
      "t", "o", "m", "a", "t", "i", "c", "a", "l", "l", "y", "\n", "-", " ", "F", "o", "l", "l", "o",
      "w", " ", "t", "h", "e", " ", "o", "f", "f", "i", "c", "i", "a", "l", " ", "G", "o", " ", "C",
      "o", "d", "e", " ", "R", "e", "v", "i", "e", "w", " ", "C", "o", "m", "m", "e", "n", "t", "s",
      " ", "g", "u", "i", "d", "e", "l", "i", "n", "e", "s", "\n", "-", " ", "U", "s", "e", " ", "c",
      "a", "m", "e", "l", "C", "a", "s", "e", " ", "f", "o", "r", " ", "e", "x", "p", "o", "r", "t",
      "e", "d", " ", "f", "u", "n", "c", "t", "i", "o", "n", "s", " ", "a", "n", "d", " ", "P", "a",
      "s", "c", "a", "l", "C", "a", "s", "e", " ", "f", "o", "r", " ", "t", "y", "p", "e", "s", "\n",
      "\n", "#", "#", " ", "N", "a", "m", "i", "n", "g", " ", "C", "o", "n", "v", "e", "n", "t", "i",
      "o", "n", "s", "\n", "-", " ", "P", "a", "c", "k", "a", "g", "e", " ", "n", "a", "m", "e", "s",
      " ", "s", "h", "o", "u", "l", "d", " ", "b", "e", " ", "s", "h", "o", "r", "t", ",", " ", "l",
      "o", "w", "e", "r", "c", "a", "s", "e", ",", " ", "s", "i", "n", "g", "l", "e", " ", "w", "o",
      "r", "d", "s", "\n", "-", " ", "I", "n", "t", "e", "r", "f", "a", "c", "e", " ", "n", "a", "m",
      "e", "s", " ", "s", "h", "o", "u", "l", "d", " ", "e", "n", "d", " ", "w", "i", "t", "h", " ",
      "'", "e", "r", "'", " ", "w", "h", "e", "n", " ", "p", "o", "s", "s", "i", "b", "l", "e", "\n",
      "-", " ", "U", "s", "e", " ", "d", "e", "s", "c", "r", "i", "p", "t", "i", "v", "e", " ", "n",
      "a", "m", "e", "s", " ", "f", "o", "r", " ", "v", "a", "r", "i", "a", "b", "l", "e", "s", " ",
      "w", "i", "t", "h", " ", "l", "o", "n", "g", "e", "r", " ", "s", "c", "o", "p", "e", "\n",
      "\n", "#", "#", " ", "F", "u", "n", "c", "t", "i", "o", "n", " ", "S", "t", "r", "u", "c", "t",
      "u", "r", "e", "\n", "-", " ", "K", "e", "e", "p", " ", "f", "u", "n", "c", "t", "i", "o", "n",
      "s", " ", "s", "m", "a", "l", "l", " ", "a", "n", "d", " ", "f", "o", "c", "u", "s", "e", "d",
      " ", "o", "n", " ", "a", " ", "s", "i", "n", "g", "l", "e", " ", "r", "e", "s", "p", "o", "n",
      "s", "i", "b", "i", "l", "i", "t", "y", "\n", "-", " ", "G", "r", "o", "u", "p", " ", "r", "e",
      "l", "a", "t", "e", "d", " ", "f", "u", "n", "c", "t", "i", "o", "n", "a", "l", "i", "t", "y",
      " ", "i", "n", "t", "o", " ", "p", "a", "c", "k", "a", "g", "e", "s", "\n", "-", " ", "U", "s",
      "e", " ", "e", "a", "r", "l", "y", " ", "r", "e", "t", "u", "r", "n", "s", " ", "t", "o", " ",
      "r", "e", "d", "u", "c", "e", " ", "n", "e", "s", "t", "i", "n", "g", "\n", "\n", "#", "#",
      " ", "C", "o", "m", "m", "e", "n", "t", "s", "\n", "-", " ", "C", "o", "m", "m", "e", "n", "t",
      " ", "e", "x", "p", "o", "r", "t", "e", "d", " ", "f", "u", "n", "c", "t", "i", "o", "n", "s",
      ",", " ", "t", "y", "p", "e", "s", ",", " ", "a", "n", "d", " ", "v", "a", "r", "i", "a", "b",
      "l", "e", "s", "\n", "-", " ", "U", "s", "e", " ", "c", "o", "m", "p", "l", "e", "t", "e", " ",
      "s", "e", "n", "t", "e", "n", "c", "e", "s", " ", "i", "n", " ", "c", "o", "m", "m", "e", "n",
      "t", "s", "\n", "-", " ", "A", "v", "o", "i", "d", " ", "o", "b", "v", "i", "o", "u", "s", " ",
      "c", "o", "m", "m", "e", "n", "t", "s", "\n", "\n", "#", "#", " ", "E", "r", "r", "o", "r",
      " ", "H", "a", "n", "d", "l", "i", "n", "g", "\n", "-", " ", "A", "l", "w", "a", "y", "s", " ",
      "h", "a", "n", "d", "l", "e", " ", "e", "r", "r", "o", "r", "s", " ", "e", "x", "p", "l", "i",
      "c", "i", "t", "l", "y", "\n", "-", " ", "D", "o", "n", "'", "t", " ", "i", "g", "n", "o", "r",
      "e", " ", "e", "r", "r", "o", "r", "s", " ", "w", "i", "t", "h", " ", "U+0060", "_", "U+0060",
      "\n", "-", " ", "U", "s", "e", " ", "c", "u", "s", "t", "o", "m", " ", "e", "r", "r", "o", "r",
      " ", "t", "y", "p", "e", "s", " ", "w", "h", "e", "n", " ", "a", "p", "p", "r", "o", "p", "r",
      "i", "a", "t", "e", "\n">>

\* the body catalogued for ("golang", "error-handling"), one element per character
content_golang_error_handling ==
    <<"#", " ", "G", "o", "l", "a", "n", "g", " ", "E", "r", "r", "o", "r", " ", "H", "a", "n", "d",
      "l", "i", "n", "g", " ", "B", "e", "s", "t", " ", "P", "r", "a", "c", "t", "i", "c", "e", "s",
      "\n", "\n", "#", "#", " ", "C", "o", "r", "e", " ", "P", "r", "i", "n", "c", "i", "p", "l",
      "e", "s", "\n", "-", " ", "E", "r", "r", "o", "r", "s", " ", "a", "r", "e", " ", "v", "a", "l",
      "u", "e", "s", ",", " ", "n", "o", "t", " ", "e", "x", "c", "e", "p", "t", "i", "o", "n", "s",
      "\n", "-", " ", "H", "a", "n", "d", "l", "e", " ", "e", "r", "r", "o", "r", "s", " ", "i", "m",
      "m", "e", "d", "i", "a", "t", "e", "l", "y", " ", "w", "h", "e", "r", "e", " ", "t", "h", "e",
      "y", " ", "o", "c", "c", "u", "r", "\n", "-", " ", "D", "o", "n", "'", "t", " ", "i", "g", "n",
      "o", "r", "e", " ", "e", "r", "r", "o", "r", "s", "\n", "\n", "#", "#", " ", "E", "r", "r",
      "o", "r", " ", "C", "r", "e", "a", "t", "i", "o", "n", "\n", "U+0060", "U+0060", "U+0060", "g",
      "o", "\n", "/", "/", " ", "U", "s", "e", " ", "e", "r", "r", "o", "r", "s", ".", "N", "e", "w",
      " ", "f", "o", "r", " ", "s", "i", "m", "p", "l", "e", " ", "e", "r", "r", "o", "r", "s", "\n",
      "e", "r", "r", " ", ":", "=", " ", "e", "r", "r", "o", "r", "s", ".", "N", "e", "w", "(", "\"",
      "s", "o", "m", "e", "t", "h", "i", "n", "g", " ", "w", "e", "n", "t", " ", "w", "r", "o", "n",
      "g", "\"", ")", "\n", "\n", "/", "/", " ", "U", "s", "e", " ", "f", "m", "t", ".", "E", "r",
      "r", "o", "r", "f", " ", "f", "o", "r", " ", "f", "o", "r", "m", "a", "t", "t", "e", "d", " ",
      "e", "r", "r", "o", "r", "s", "\n", "e", "r", "r", " ", ":", "=", " ", "f", "m", "t", ".", "E",
      "r", "r", "o", "r", "f", "(", "\"", "f", "a", "i", "l", "e", "d", " ", "t", "o", " ", "p", "r",
      "o", "c", "e", "s", "s", " ", "%", "s", ":", " ", "%", "w", "\"", ",", " ", "f", "i", "l", "e",
      "n", "a", "m", "e", ",", " ", "o", "r", "i", "g", "i", "n", "a", "l", "E", "r", "r", ")", "\n",
      "U+0060", "U+0060", "U+0060", "\n", "\n", "#", "#", " ", "E", "r", "r", "o", "r", " ", "C",
      "h", "e", "c", "k", "i", "n", "g", "\n", "U+0060", "U+0060", "U+0060", "g", "o", "\n", "i",
      "f", " ", "e", "r", "r", " ", "!", "=", " ", "n", "i", "l", " ", "{", "\n", " ", " ", " ", " ",
      "r", "e", "t", "u", "r", "n", " ", "f", "m", "t", ".", "E", "r", "r", "o", "r", "f", "(", "\"",
      "o", "p", "e", "r", "a", "t", "i", "o", "n", " ", "f", "a", "i", "l", "e", "d", ":", " ", "%",
      "w", "\"", ",", " ", "e", "r", "r", ")", "\n", "}", "\n", "U+0060", "U+0060", "U+0060", "\n",
      "\n", "#", "#", " ", "C", "u", "s", "t", "o", "m", " ", "E", "r", "r", "o", "r", " ", "T", "y",
      "p", "e", "s", "\n", "-", " ", "I", "m", "p", "l", "e", "m", "e", "n", "t", " ", "t", "h", "e",
      " ", "e", "r", "r", "o", "r", " ", "i", "n", "t", "e", "r", "f", "a", "c", "e", " ", "f", "o",
      "r", " ", "d", "o", "m", "a", "i", "n", "-", "s", "p", "e", "c", "i", "f", "i", "c", " ", "e",
      "r", "r", "o", "r", "s", "\n", "-", " ", "U", "s", "e", " ", "e", "r", "r", "o", "r", " ", "w",
      "r", "a", "p", "p", "i", "n", "g", " ", "t", "o", " ", "p", "r", "e", "s", "e", "r", "v", "e",
      " ", "c", "o", "n", "t", "e", "x", "t", "\n", "-", " ", "C", "o", "n", "s", "i", "d", "e", "r",
      " ", "s", "e", "n", "t", "i", "n", "e", "l", " ", "e", "r", "r", "o", "r", "s", " ", "f", "o",
      "r", " ", "e", "x", "p", "e", "c", "t", "e", "d", " ", "e", "r", "r", "o", "r", " ", "c", "o",
      "n", "d", "i", "t", "i", "o", "n", "s", "\n", "\n", "#", "#", " ", "T", "e", "s", "t", "i",
      "n", "g", " ", "E", "r", "r", "o", "r", "s", "\n", "-", " ", "T", "e", "s", "t", " ", "b", "o",
      "t", "h", " ", "s", "u", "c", "c", "e", "s", "s", " ", "a", "n", "d", " ", "f", "a", "i", "l",
      "u", "r", "e", " ", "p", "a", "t", "h", "s", "\n", "-", " ", "V", "e", "r", "i", "f", "y", " ",
      "e", "r", "r", "o", "r", " ", "m", "e", "s", "s", "a", "g", "e", "s", " ", "a", "n", "d", " ",
      "t", "y", "p", "e", "s", "\n", "-", " ", "U", "s", "e", " ", "t", "e", "s", "t", "i", "f", "y",
      "/", "a", "s", "s", "e", "r", "t", " ", "f", "o", "r", " ", "e", "r", "r", "o", "r", " ", "t",
      "e", "s", "t", "i", "n", "g", "\n">>

\* the body catalogued for ("golang", "testing"), one element per character
content_golang_testing ==
    <<"#", " ", "G", "o", "l", "a", "n", "g", " ", "T", "e", "s", "t", "i", "n", "g", " ", "G", "u",
      "i", "d", "e", "l", "i", "n", "e", "s", "\n", "\n", "#", "#", " ", "T", "e", "s", "t", " ",
      "S", "t", "r", "u", "c", "t", "u", "r", "e", "\n", "-", " ", "F", "o", "l", "l", "o", "w", " ",
      "t", "h", "e", " ", "A", "A", "A", " ", "p", "a", "t", "t", "e", "r", "n", ":", " ", "A", "r",
      "r", "a", "n", "g", "e", ",", " ", "A", "c", "t", ",", " ", "A", "s", "s", "e", "r", "t", "\n",
      "-", " ", "U", "s", "e", " ", "t", "a", "b", "l", "e", "-", "d", "r", "i", "v", "e", "n", " ",
      "t", "e", "s", "t", "s", " ", "f", "o", "r", " ", "m", "u", "l", "t", "i", "p", "l", "e", " ",
      "s", "c", "e", "n", "a", "r", "i", "o", "s", "\n", "-", " ", "K", "e", "e", "p", " ", "t", "e",
      "s", "t", "s", " ", "s", "i", "m", "p", "l", "e", " ", "a", "n", "d", " ", "f", "o", "c", "u",
      "s", "e", "d", "\n", "\n", "#", "#", " ", "T", "e", "s", "t", " ", "N", "a", "m", "i", "n",
      "g", "\n", "-", " ", "U", "s", "e", " ", "d", "e", "s", "c", "r", "i", "p", "t", "i", "v", "e",
      " ", "t", "e", "s", "t", " ", "f", "u", "n", "c", "t", "i", "o", "n", " ", "n", "a", "m", "e",
      "s", "\n", "-", " ", "F", "o", "r", "m", "a", "t", ":", " ", "U+0060", "T", "e", "s", "t", "F",
      "u", "n", "c", "t", "i", "o", "n", "N", "a", "m", "e", "_", "S", "c", "e", "n", "a", "r", "i",
      "o", "_", "E", "x", "p", "e", "c", "t", "e", "d", "R", "e", "s", "u", "l", "t", "U+0060", "\n",
      "-", " ", "E", "x", "a", "m", "p", "l", "e", ":", " ", "U+0060", "T", "e", "s", "t", "C", "a",
      "l", "c", "u", "l", "a", "t", "e", "T", "o", "t", "a", "l", "_", "W", "i", "t", "h", "V", "a",
      "l", "i", "d", "I", "t", "e", "m", "s", "_", "R", "e", "t", "u", "r", "n", "s", "C", "o", "r",
      "r", "e", "c", "t", "S", "u", "m", "U+0060", "\n", "\n", "#", "#", " ", "T", "e", "s", "t",
      " ", "O", "r", "g", "a", "n", "i", "z", "a", "t", "i", "o", "n", "\n", "U+0060", "U+0060",
      "U+0060", "g", "o", "\n", "f", "u", "n", "c", " ", "T", "e", "s", "t", "C", "a", "l", "c", "u",
      "l", "a", "t", "o", "r", "(", "t", " ", "*", "t", "e", "s", "t", "i", "n", "g", ".", "T", ")",
      " ", "{", "\n", " ", " ", " ", " ", "t", "e", "s", "t", "s", " ", ":", "=", " ", "[", "]", "s",
      "t", "r", "u", "c", "t", " ", "{", "\n", " ", " ", " ", " ", " ", " ", " ", " ", "n", "a", "m",
      "e", " ", " ", " ", " ", " ", "s", "t", "r", "i", "n", "g", "\n", " ", " ", " ", " ", " ", " ",
      " ", " ", "i", "n", "p", "u", "t", " ", " ", " ", " ", "i", "n", "t", "\n", " ", " ", " ", " ",
      " ", " ", " ", " ", "e", "x", "p", "e", "c", "t", "e", "d", " ", "i", "n", "t", "\n", " ", " ",
      " ", " ", "}", "{", "\n", " ", " ", " ", " ", " ", " ", " ", " ", "{", "\"", "p", "o", "s",
      "i", "t", "i", "v", "e", " ", "n", "u", "m", "b", "e", "r", "\"", ",", " ", "5", ",", " ", "5",
      "}", ",", "\n", " ", " ", " ", " ", " ", " ", " ", " ", "{", "\"", "z", "e", "r", "o", "\"",
      ",", " ", "0", ",", " ", "0", "}", ",", "\n", " ", " ", " ", " ", " ", " ", " ", " ", "{",
      "\"", "n", "e", "g", "a", "t", "i", "v", "e", " ", "n", "u", "m", "b", "e", "r", "\"", ",",
      " ", "-", "3", ",", " ", "-", "3", "}", ",", "\n", " ", " ", " ", " ", "}", "\n", " ", " ",
      " ", " ", "\n", " ", " ", " ", " ", "f", "o", "r", " ", "_", ",", " ", "t", "t", " ", ":", "=",
      " ", "r", "a", "n", "g", "e", " ", "t", "e", "s", "t", "s", " ", "{", "\n", " ", " ", " ", " ",
      " ", " ", " ", " ", "t", ".", "R", "u", "n", "(", "t", "t", ".", "n", "a", "m", "e", ",", " ",
      "f", "u", "n", "c", "(", "t", " ", "*", "t", "e", "s", "t", "i", "n", "g", ".", "T", ")", " ",
      "{", "\n", " ", " ", " ", " ", " ", " ", " ", " ", " ", " ", " ", " ", "r", "e", "s", "u", "l",
      "t", " ", ":", "=", " ", "C", "a", "l", "c", "u", "l", "a", "t", "e", "(", "t", "t", ".", "i",
      "n", "p", "u", "t", ")", "\n", " ", " ", " ", " ", " ", " ", " ", " ", " ", " ", " ", " ", "a",
      "s", "s", "e", "r", "t", ".", "E", "q", "u", "a", "l", "(", "t", ",", " ", "t", "t", ".", "e",
      "x", "p", "e", "c", "t", "e", "d", ",", " ", "r", "e", "s", "u", "l", "t", ")", "\n", " ", " ",
      " ", " ", " ", " ", " ", " ", "}", ")", "\n", " ", " ", " ", " ", "}", "\n", "}", "\n",
      "U+0060", "U+0060", "U+0060", "\n", "\n", "#", "#", " ", "B", "e", "s", "t", " ", "P", "r",
      "a", "c", "t", "i", "c", "e", "s", "\n", "-", " ", "U", "s", "e", " ", "t", "e", "s", "t", "i",
      "f", "y", "/", "r", "e", "q", "u", "i", "r", "e", " ", "f", "o", "r", " ", "a", "s", "s", "e",
      "r", "t", "i", "o", "n", "s", " ", "t", "h", "a", "t", " ", "s", "h", "o", "u", "l", "d", " ",
      "s", "t", "o", "p", " ", "t", "h", "e", " ", "t", "e", "s", "t", "\n", "-", " ", "U", "s", "e",
      " ", "t", "e", "s", "t", "i", "f", "y", "/", "a", "s", "s", "e", "r", "t", " ", "f", "o", "r",
      " ", "n", "o", "n", "-", "c", "r", "i", "t", "i", "c", "a", "l", " ", "a", "s", "s", "e", "r",
      "t", "i", "o", "n", "s", "\n", "-", " ", "M", "o", "c", "k", " ", "e", "x", "t", "e", "r", "n",
      "a", "l", " ", "d", "e", "p", "e", "n", "d", "e", "n", "c", "i", "e", "s", "\n", "-", " ", "T",
      "e", "s", "t", " ", "e", "d", "g", "e", " ", "c", "a", "s", "e", "s", " ", "a", "n", "d", " ",
      "e", "r", "r", "o", "r", " ", "c", "o", "n", "d", "i", "t", "i", "o", "n", "s", "\n">>

\* the body catalogued for ("golang", "concurrency"), one element per character
content_golang_concurrency ==
    <<"#", " ", "G", "o", "l", "a", "n", "g", " ", "C", "o", "n", "c", "u", "r", "r", "e", "n", "c",
      "y", " ", "P", "a", "t", "t", "e", "r", "n", "s", "\n", "\n", "#", "#", " ", "G", "o", "r",
      "o", "u", "t", "i", "n", "e", "s", "\n", "-", " ", "U", "s", "e", " ", "g", "o", "r", "o", "u",
      "t", "i", "n", "e", "s", " ", "f", "o", "r", " ", "c", "o", "n", "c", "u", "r", "r", "e", "n",
      "t", " ", "o", "p", "e", "r", "a", "t", "i", "o", "n", "s", "\n", "-", " ", "A", "l", "w", "a",
      "y", "s", " ", "h", "a", "v", "e", " ", "a", " ", "w", "a", "y", " ", "t", "o", " ", "s", "t",
      "o", "p", " ", "g", "o", "r", "o", "u", "t", "i", "n", "e", "s", "\n", "-", " ", "D", "o", "n",
      "'", "t", " ", "c", "r", "e", "a", "t", "e", " ", "g", "o", "r", "o", "u", "t", "i", "n", "e",
      "s", " ", "w", "i", "t", "h", "o", "u", "t", " ", "b", "o", "u", "n", "d", "s", "\n", "\n",
      "#", "#", " ", "C", "h", "a", "n", "n", "e", "l", "s", "\n", "-", " ", "U", "s", "e", " ", "c",
      "h", "a", "n", "n", "e", "l", "s", " ", "t", "o", " ", "c", "o", "m", "m", "u", "n", "i", "c",
      "a", "t", "e", " ", "b", "e", "t", "w", "e", "e", "n", " ", "g", "o", "r", "o", "u", "t", "i",
      "n", "e", "s", "\n", "-", " ", "C", "l", "o", "s", "e", " ", "c", "h", "a", "n", "n", "e", "l",
      "s", " ", "w", "h", "e", "n", " ", "d", "o", "n", "e", " ", "s", "e", "n", "d", "i", "n", "g",
      "\n", "-", " ", "U", "s", "e", " ", "b", "u", "f", "f", "e", "r", "e", "d", " ", "c", "h", "a",
      "n", "n", "e", "l", "s", " ", "t", "o", " ", "p", "r", "e", "v", "e", "n", "t", " ", "b", "l",
      "o", "c", "k", "i", "n", "g", "\n", "\n", "#", "#", " ", "C", "o", "m", "m", "o", "n", " ",
      "P", "a", "t", "t", "e", "r", "n", "s", "\n", "\n", "#", "#", "#", " ", "W", "o", "r", "k",
      "e", "r", " ", "P", "o", "o", "l", "\n", "U+0060", "U+0060", "U+0060", "g", "o", "\n", "f",
      "u", "n", "c", " ", "w", "o", "r", "k", "e", "r", "P", "o", "o", "l", "(", "j", "o", "b", "s",
      " ", "<", "-", "c", "h", "a", "n", " ", "J", "o", "b", ",", " ", "r", "e", "s", "u", "l", "t",
      "s", " ", "c", "h", "a", "n", "<", "-", " ", "R", "e", "s", "u", "l", "t", ")", " ", "{", "\n",
      " ", " ", " ", " ", "f", "o", "r", " ", "j", "o", "b", " ", ":", "=", " ", "r", "a", "n", "g",
      "e", " ", "j", "o", "b", "s", " ", "{", "\n", " ", " ", " ", " ", " ", " ", " ", " ", "r", "e",
      "s", "u", "l", "t", "s", " ", "<", "-", " ", "p", "r", "o", "c", "e", "s", "s", "J", "o", "b",
      "(", "j", "o", "b", ")", "\n", " ", " ", " ", " ", "}", "\n", "}", "\n", "U+0060", "U+0060",
      "U+0060", "\n", "\n", "#", "#", "#", " ", "F", "a", "n", "-", "o", "u", "t", "/", "F", "a",
      "n", "-", "i", "n", "\n", "-", " ", "F", "a", "n", "-", "o", "u", "t", ":", " ", "d", "i", "s",
      "t", "r", "i", "b", "u", "t", "e", " ", "w", "o", "r", "k", " ", "a", "c", "r", "o", "s", "s",
      " ", "m", "u", "l", "t", "i", "p", "l", "e", " ", "g", "o", "r", "o", "u", "t", "i", "n", "e",
      "s", "\n", "-", " ", "F", "a", "n", "-", "i", "n", ":", " ", "c", "o", "l", "l", "e", "c", "t",
      " ", "r", "e", "s", "u", "l", "t", "s", " ", "f", "r", "o", "m", " ", "m", "u", "l", "t", "i",
      "p", "l", "e", " ", "g", "o", "r", "o", "u", "t", "i", "n", "e", "s", "\n", "\n", "#", "#",
      "#", " ", "P", "i", "p", "e", "l", "i", "n", "e", "\n", "-", " ", "C", "h", "a", "i", "n", " ",
      "o", "p", "e", "r", "a", "t", "i", "o", "n", "s", " ", "u", "s", "i", "n", "g", " ", "c", "h",
      "a", "n", "n", "e", "l", "s", "\n", "-", " ", "E", "a", "c", "h", " ", "s", "t", "a", "g", "e",
      " ", "p", "r", "o", "c", "e", "s", "s", "e", "s", " ", "d", "a", "t", "a", " ", "a", "n", "d",
      " ", "p", "a", "s", "s", "e", "s", " ", "t", "o", " ", "n", "e", "x", "t", " ", "s", "t", "a",
      "g", "e", "\n", "\n", "#", "#", " ", "S", "y", "n", "c", "h", "r", "o", "n", "i", "z", "a",
      "t", "i", "o", "n", "\n", "-", " ", "U", "s", "e", " ", "s", "y", "n", "c", ".", "M", "u", "t",
      "e", "x", " ", "f", "o", "r", " ", "p", "r", "o", "t", "e", "c", "t", "i", "n", "g", " ", "s",
      "h", "a", "r", "e", "d", " ", "s", "t", "a", "t", "e", "\n", "-", " ", "U", "s", "e", " ", "s",
      "y", "n", "c", ".", "W", "a", "i", "t", "G", "r", "o", "u", "p", " ", "t", "o", " ", "w", "a",
      "i", "t", " ", "f", "o", "r", " ", "g", "o", "r", "o", "u", "t", "i", "n", "e", "s", "\n", "-",
      " ", "P", "r", "e", "f", "e", "r", " ", "c", "h", "a", "n", "n", "e", "l", "s", " ", "o", "v",
      "e", "r", " ", "s", "h", "a", "r", "e", "d", " ", "m", "e", "m", "o", "r", "y", " ", "w", "h",
      "e", "n", " ", "p", "o", "s", "s", "i", "b", "l", "e", "\n">>

\* the body catalogued for ("golang", "performance"), one element per character
content_golang_performance ==
    <<"#", " ", "G", "o", "l", "a", "n", "g", " ", "P", "e", "r", "f", "o", "r", "m", "a", "n", "c",
      "e", " ", "O", "p", "t", "i", "m", "i", "z", "a", "t", "i", "o", "n", "\n", "\n", "#", "#",
      " ", "P", "r", "o", "f", "i", "l", "i", "n", "g", "\n", "-", " ", "U", "s", "e", " ", "U+0060",
      "g", "o", " ", "t", "o", "o", "l", " ", "p", "p", "r", "o", "f", "U+0060", " ", "f", "o", "r",
      " ", "p", "e", "r", "f", "o", "r", "m", "a", "n", "c", "e", " ", "a", "n", "a", "l", "y", "s",
      "i", "s", "\n", "-", " ", "P", "r", "o", "f", "i", "l", "e", " ", "C", "P", "U", ",", " ", "m",
      "e", "m", "o", "r", "y", ",", " ", "a", "n", "d", " ", "g", "o", "r", "o", "u", "t", "i", "n",
      "e", " ", "u", "s", "a", "g", "e", "\n", "-", " ", "U", "s", "e", " ", "b", "e", "n", "c", "h",
      "m", "a", "r", "k", "s", " ", "t", "o", " ", "m", "e", "a", "s", "u", "r", "e", " ", "p", "e",
      "r", "f", "o", "r", "m", "a", "n", "c", "e", "\n", "\n", "#", "#", " ", "M", "e", "m", "o",
      "r", "y", " ", "M", "a", "n", "a", "g", "e", "m", "e", "n", "t", "\n", "-", " ", "A", "v", "o",
      "i", "d", " ", "u", "n", "n", "e", "c", "e", "s", "s", "a", "r", "y", " ", "a", "l", "l", "o",
      "c", "a", "t", "i", "o", "n", "s", " ", "i", "n", " ", "h", "o", "t", " ", "p", "a", "t", "h",
      "s", "\n", "-", " ", "R", "e", "u", "s", "e", " ", "s", "l", "i", "c", "e", "s", " ", "a", "n",
      "d", " ", "m", "a", "p", "s", " ", "w", "h", "e", "n", " ", "p", "o", "s", "s", "i", "b", "l",
      "e", "\n", "-", " ", "U", "s", "e", " ", "o", "b", "j", "e", "c", "t", " ", "p", "o", "o", "l",
      "s", " ", "f", "o", "r", " ", "e", "x", "p", "e", "n", "s", "i", "v", "e", " ", "o", "b", "j",
      "e", "c", "t", "s", "\n", "\n", "#", "#", " ", "O", "p", "t", "i", "m", "i", "z", "a", "t",
      "i", "o", "n", " ", "T", "e", "c", "h", "n", "i", "q", "u", "e", "s", "\n", "-", " ", "U", "s",
      "e", " ", "s", "t", "r", "i", "n", "g", ".", "B", "u", "i", "l", "d", "e", "r", " ", "f", "o",
      "r", " ", "s", "t", "r", "i", "n", "g", " ", "c", "o", "n", "c", "a", "t", "e", "n", "a", "t",
      "i", "o", "n", "\n", "-", " ", "P", "r", "e", "f", "e", "r", " ", "s", "l", "i", "c", "e", "s",
      " ", "o", "v", "e", "r", " ", "a", "r", "r", "a", "y", "s", " ", "f", "o", "r", " ", "f", "l",
      "e", "x", "i", "b", "i", "l", "i", "t", "y", "\n", "-", " ", "U", "s", "e", " ", "i", "n", "t",
      "e", "r", "f", "a", "c", "e", "s", " ", "w", "i", "s", "e", "l", "y", " ", "-", " ", "t", "h",
      "e", "y", " ", "h", "a", "v", "e", " ", "o", "v", "e", "r", "h", "e", "a", "d", "\n", "\n",
      "#", "#", " ", "B", "e", "n", "c", "h", "m", "a", "r", "k", "i", "n", "g", "\n", "U+0060",
      "U+0060", "U+0060", "g", "o", "\n", "f", "u", "n", "c", " ", "B", "e", "n", "c", "h", "m", "a",
      "r", "k", "F", "u", "n", "c", "t", "i", "o", "n", "(", "b", " ", "*", "t", "e", "s", "t", "i",
      "n", "g", ".", "B", ")", " ", "{", "\n", " ", " ", " ", " ", "f", "o", "r", " ", "i", " ", ":",
      "=", " ", "0", ";", " ", "i", " ", "<", " ", "b", ".", "N", ";", " ", "i", "+", "+", " ", "{",
      "\n", " ", " ", " ", " ", " ", " ", " ", " ", "F", "u", "n", "c", "t", "i", "o", "n", "T", "o",
      "T", "e", "s", "t", "(", ")", "\n", " ", " ", " ", " ", "}", "\n", "}", "\n", "U+0060",
      "U+0060", "U+0060", "\n", "\n", "#", "#", " ", "C", "o", "m", "m", "o", "n", " ", "P", "i",
      "t", "f", "a", "l", "l", "s", "\n", "-", " ", "P", "r", "e", "m", "a", "t", "u", "r", "e", " ",
      "o", "p", "t", "i", "m", "i", "z", "a", "t", "i", "o", "n", "\n", "-", " ", "N", "o", "t", " ",
      "m", "e", "a", "s", "u", "r", "i", "n", "g", " ", "b", "e", "f", "o", "r", "e", " ", "o", "p",
      "t", "i", "m", "i", "z", "i", "n", "g", "\n", "-", " ", "M", "i", "c", "r", "o", "-", "o", "p",
      "t", "i", "m", "i", "z", "a", "t", "i", "o", "n", "s", " ", "a", "t", " ", "e", "x", "p", "e",
      "n", "s", "e", " ", "o", "f", " ", "r", "e", "a", "d", "a", "b", "i", "l", "i", "t", "y", "\n",
      "-", " ", "I", "g", "n", "o", "r", "i", "n", "g", " ", "g", "a", "r", "b", "a", "g", "e", " ",
      "c", "o", "l", "l", "e", "c", "t", "i", "o", "n", " ", "i", "m", "p", "a", "c", "t", "\n">>

\* the body catalogued for ("python", "code-styling"), one element per character
content_python_code_styling ==
    <<"#", " ", "P", "y", "t", "h", "o", "n", " ", "C", "o", "d", "e", " ", "S", "t", "y", "l", "i",
      "n", "g", " ", "G", "u", "i", "d", "e", "l", "i", "n", "e", "s", "\n", "\n", "#", "#", " ",
      "P", "E", "P", " ", "8", " ", "C", "o", "m", "p", "l", "i", "a", "n", "c", "e", "\n", "-", " ",
      "U", "s", "e", " ", "4", " ", "s", "p", "a", "c", "e", "s", " ", "f", "o", "r", " ", "i", "n",
      "d", "e", "n", "t", "a", "t", "i", "o", "n", "\n", "-", " ", "L", "i", "n", "e", " ", "l", "e",
      "n", "g", "t", "h", " ", "m", "a", "x", "i", "m", "u", "m", " ", "o", "f", " ", "7", "9", " ",
      "c", "h", "a", "r", "a", "c", "t", "e", "r", "s", "\n", "-", " ", "U", "s", "e", " ", "s", "n",
      "a", "k", "e", "_", "c", "a", "s", "e", " ", "f", "o", "r", " ", "v", "a", "r", "i", "a", "b",
      "l", "e", "s", " ", "a", "n", "d", " ", "f", "u", "n", "c", "t", "i", "o", "n", "s", "\n", "-",
      " ", "U", "s", "e", " ", "P", "a", "s", "c", "a", "l", "C", "a", "s", "e", " ", "f", "o", "r",
      " ", "c", "l", "a", "s", "s", "e", "s", "\n", "\n", "#", "#", " ", "I", "m", "p", "o", "r",
      "t", " ", "O", "r", "g", "a", "n", "i", "z", "a", "t", "i", "o", "n", "\n", "U+0060", "U+0060",
      "U+0060", "p", "y", "t", "h", "o", "n", "\n", "#", " ", "S", "t", "a", "n", "d", "a", "r", "d",
      " ", "l", "i", "b", "r", "a", "r", "y", " ", "i", "m", "p", "o", "r", "t", "s", "\n", "i", "m",
      "p", "o", "r", "t", " ", "o", "s", "\n", "i", "m", "p", "o", "r", "t", " ", "s", "y", "s",
      "\n", "\n", "#", " ", "T", "h", "i", "r", "d", "-", "p", "a", "r", "t", "y", " ", "i", "m",
      "p", "o", "r", "t", "s", "\n", "i", "m", "p", "o", "r", "t", " ", "r", "e", "q", "u", "e", "s",
      "t", "s", "\n", "i", "m", "p", "o", "r", "t", " ", "n", "u", "m", "p", "y", " ", "a", "s", " ",
      "n", "p", "\n", "\n", "#", " ", "L", "o", "c", "a", "l", " ", "i", "m", "p", "o", "r", "t",
      "s", "\n", "f", "r", "o", "m", " ", "m", "y", "a", "p", "p", " ", "i", "m", "p", "o", "r", "t",
      " ", "m", "o", "d", "e", "l", "s", "\n", "f", "r", "o", "m", " ", ".", " ", "i", "m", "p", "o",
      "r", "t", " ", "u", "t", "i", "l", "s", "\n", "U+0060", "U+0060", "U+0060", "\n", "\n", "#",
      "#", " ", "F", "u", "n", "c", "t", "i", "o", "n", " ", "a", "n", "d", " ", "C", "l", "a", "s",
      "s", " ", "D", "e", "s", "i", "g", "n", "\n", "-", " ", "K", "e", "e", "p", " ", "f", "u", "n",
      "c", "t", "i", "o", "n", "s", " ", "s", "m", "a", "l", "l", " ", "a", "n", "d", " ", "f", "o",
      "c", "u", "s", "e", "d", "\n", "-", " ", "U", "s", "e", " ", "t", "y", "p", "e", " ", "h", "i",
      "n", "t", "s", " ", "f", "o", "r", " ", "b", "e", "t", "t", "e", "r", " ", "c", "o", "d", "e",
      " ", "d", "o", "c", "u", "m", "e", "n", "t", "a", "t", "i", "o", "n", "\n", "-", " ", "F", "o",
      "l", "l", "o", "w", " ", "t", "h", "e", " ", "s", "i", "n", "g", "l", "e", " ", "r", "e", "s",
      "p", "o", "n", "s", "i", "b", "i", "l", "i", "t", "y", " ", "p", "r", "i", "n", "c", "i", "p",
      "l", "e", "\n", "\n", "#", "#", " ", "N", "a", "m", "i", "n", "g", " ", "C", "o", "n", "v",
      "e", "n", "t", "i", "o", "n", "s", "\n", "-", " ", "V", "a", "r", "i", "a", "b", "l", "e", "s",
      ":", " ", "U+0060", "u", "s", "e", "r", "_", "n", "a", "m", "e", "U+0060", ",", " ", "U+0060",
      "t", "o", "t", "a", "l", "_", "c", "o", "u", "n", "t", "U+0060", "\n", "-", " ", "F", "u", "n",
      "c", "t", "i", "o", "n", "s", ":", " ", "U+0060", "c", "a", "l", "c", "u", "l", "a", "t", "e",
      "_", "t", "o", "t", "a", "l", "(", ")", "U+0060", ",", " ", "U+0060", "s", "e", "n", "d", "_",
      "e", "m", "a", "i", "l", "(", ")", "U+0060", "\n", "-", " ", "C", "l", "a", "s", "s", "e", "s",
      ":", " ", "U+0060", "U", "s", "e", "r", "M", "a", "n", "a", "g", "e", "r", "U+0060", ",", " ",
      "U+0060", "E", "m", "a", "i", "l", "S", "e", "r", "v", "i", "c", "e", "U+0060", "\n", "-", " ",
      "C", "o", "n", "s", "t", "a", "n", "t", "s", ":", " ", "U+0060", "M", "A", "X", "_", "R", "E",
      "T", "R", "I", "E", "S", "U+0060", ",", " ", "U+0060", "D", "E", "F", "A", "U", "L", "T", "_",
      "T", "I", "M", "E", "O", "U", "T", "U+0060", "\n", "\n", "#", "#", " ", "D", "o", "c", "u",
      "m", "e", "n", "t", "a", "t", "i", "o", "n", "\n", "-", " ", "U", "s", "e", " ", "d", "o", "c",
      "s", "t", "r", "i", "n", "g", "s", " ", "f", "o", "r", " ", "m", "o", "d", "u", "l", "e", "s",
      ",", " ", "c", "l", "a", "s", "s", "e", "s", ",", " ", "a", "n", "d", " ", "f", "u", "n", "c",
      "t", "i", "o", "n", "s", "\n", "-", " ", "F", "o", "l", "l", "o", "w", " ", "G", "o", "o", "g",
      "l", "e", " ", "o", "r", " ", "N", "u", "m", "P", "y", " ", "d", "o", "c", "s", "t", "r", "i",
      "n", "g", " ", "s", "t", "y", "l", "e", "\n", "-", " ", "I", "n", "c", "l", "u", "d", "e", " ",
      "e", "x", "a", "m", "p", "l", "e", "s", " ", "i", "n", " ", "d", "o", "c", "s", "t", "r", "i",
      "n", "g", "s", " ", "w", "h", "e", "n", " ", "h", "e", "l", "p", "f", "u", "l", "\n">>

\* the body catalogued for ("python", "testing"), one element per character
content_python_testing ==
    <<"#", " ", "P", "y", "t", "h", "o", "n", " ", "T", "e", "s", "t", "i", "n", "g", " ", "B", "e",
      "s", "t", " ", "P", "r", "a", "c", "t", "i", "c", "e", "s", "\n", "\n", "#", "#", " ", "T",
      "e", "s", "t", " ", "F", "r", "a", "m", "e", "w", "o", "r", "k", "\n", "-", " ", "U", "s", "e",
      " ", "p", "y", "t", "e", "s", "t", " ", "a", "s", " ", "t", "h", "e", " ", "p", "r", "i", "m",
      "a", "r", "y", " ", "t", "e", "s", "t", "i", "n", "g", " ", "f", "r", "a", "m", "e", "w", "o",
      "r", "k", "\n", "-", " ", "O", "r", "g", "a", "n", "i", "z", "e", " ", "t", "e", "s", "t", "s",
      " ", "i", "n", " ", "s", "e", "p", "a", "r", "a", "t", "e", " ", "t", "e", "s", "t", " ", "f",
      "i", "l", "e", "s", "/", "d", "i", "r", "e", "c", "t", "o", "r", "i", "e", "s", "\n", "-", " ",
      "U", "s", "e", " ", "f", "i", "x", "t", "u", "r", "e", "s", " ", "f", "o", "r", " ", "s", "e",
      "t", "u", "p", " ", "a", "n", "d", " ", "t", "e", "a", "r", "d", "o", "w", "n", "\n", "\n",
      "#", "#", " ", "T", "e", "s", "t", " ", "S", "t", "r", "u", "c", "t", "u", "r", "e", "\n",
      "U+0060", "U+0060", "U+0060", "p", "y", "t", "h", "o", "n", "\n", "d", "e", "f", " ", "t", "e",
      "s", "t", "_", "f", "u", "n", "c", "t", "i", "o", "n", "_", "n", "a", "m", "e", "_", "s", "c",
      "e", "n", "a", "r", "i", "o", "_", "e", "x", "p", "e", "c", "t", "e", "d", "_", "r", "e", "s",
      "u", "l", "t", "(", ")", ":", "\n", " ", " ", " ", " ", "#", " ", "A", "r", "r", "a", "n", "g",
      "e", "\n", " ", " ", " ", " ", "i", "n", "p", "u", "t", "_", "d", "a", "t", "a", " ", "=", " ",
      "{", "\"", "k", "e", "y", "\"", ":", " ", "\"", "v", "a", "l", "u", "e", "\"", "}", "\n", " ",
      " ", " ", " ", "\n", " ", " ", " ", " ", "#", " ", "A", "c", "t", "\n", " ", " ", " ", " ",
      "r", "e", "s", "u", "l", "t", " ", "=", " ", "f", "u", "n", "c", "t", "i", "o", "n", "_", "u",
      "n", "d", "e", "r", "_", "t", "e", "s", "t", "(", "i", "n", "p", "u", "t", "_", "d", "a", "t",
      "a", ")", "\n", " ", " ", " ", " ", "\n", " ", " ", " ", " ", "#", " ", "A", "s", "s", "e",
      "r", "t", "\n", " ", " ", " ", " ", "a", "s", "s", "e", "r", "t", " ", "r", "e", "s", "u", "l",
      "t", " ", "=", "=", " ", "e", "x", "p", "e", "c", "t", "e", "d", "_", "v", "a", "l", "u", "e",
      "\n", "U+0060", "U+0060", "U+0060", "\n", "\n", "#", "#", " ", "T", "e", "s", "t", " ", "O",
      "r", "g", "a", "n", "i", "z", "a", "t", "i", "o", "n", "\n", "-", " ", "G", "r", "o", "u", "p",
      " ", "r", "e", "l", "a", "t", "e", "d", " ", "t", "e", "s", "t", "s", " ", "i", "n", " ", "c",
      "l", "a", "s", "s", "e", "s", "\n", "-", " ", "U", "s", "e", " ", "p", "a", "r", "a", "m", "e",
      "t", "r", "i", "z", "e", " ", "f", "o", "r", " ", "t", "e", "s", "t", "i", "n", "g", " ", "m",
      "u", "l", "t", "i", "p", "l", "e", " ", "s", "c", "e", "n", "a", "r", "i", "o", "s", "\n", "-",
      " ", "M", "o", "c", "k", " ", "e", "x", "t", "e", "r", "n", "a", "l", " ", "d", "e", "p", "e",
      "n", "d", "e", "n", "c", "i", "e", "s", "\n", "\n", "#", "#", " ", "C", "o", "v", "e", "r",
      "a", "g", "e", " ", "a", "n", "d", " ", "Q", "u", "a", "l", "i", "t", "y", "\n", "-", " ", "A",
      "i", "m", " ", "f", "o", "r", " ", "h", "i", "g", "h", " ", "t", "e", "s", "t", " ", "c", "o",
      "v", "e", "r", "a", "g", "e", " ", "(", ">", "9", "0", "%", ")", "\n", "-", " ", "T", "e", "s",
      "t", " ", "e", "d", "g", "e", " ", "c", "a", "s", "e", "s", " ", "a", "n", "d", " ", "e", "r",
      "r", "o", "r", " ", "c", "o", "n", "d", "i", "t", "i", "o", "n", "s", "\n", "-", " ", "U", "s",
      "e", " ", "p", "r", "o", "p", "e", "r", "t", "y", "-", "b", "a", "s", "e", "d", " ", "t", "e",
      "s", "t", "i", "n", "g", " ", "w", "i", "t", "h", " ", "h", "y", "p", "o", "t", "h", "e", "s",
      "i", "s", "\n", "\n", "#", "#", " ", "F", "i", "x", "t", "u", "r", "e", "s", " ", "a", "n",
      "d", " ", "M", "o", "c", "k", "i", "n", "g", "\n", "U+0060", "U+0060", "U+0060", "p", "y", "t",
      "h", "o", "n", "\n", "@", "p", "y", "t", "e", "s", "t", ".", "f", "i", "x", "t", "u", "r", "e",
      "\n", "d", "e", "f", " ", "s", "a", "m", "p", "l", "e", "_", "d", "a", "t", "a", "(", ")", ":",
      "\n", " ", " ", " ", " ", "r", "e", "t", "u", "r", "n", " ", "{", "\"", "i", "d", "\"", ":",
      " ", "1", ",", " ", "\"", "n", "a", "m", "e", "\"", ":", " ", "\"", "t", "e", "s", "t", "\"",
      "}", "\n", "\n", "@", "m", "o", "c", "k", ".", "p", "a", "t", "c", "h", "(", "'", "m", "o",
      "d", "u", "l", "e", ".", "e", "x", "t", "e", "r", "n", "a", "l", "_", "s", "e", "r", "v", "i",
      "c", "e", "'", ")", "\n", "d", "e", "f", " ", "t", "e", "s", "t", "_", "w", "i", "t", "h", "_",
      "m", "o", "c", "k", "(", "m", "o", "c", "k", "_", "s", "e", "r", "v", "i", "c", "e", ")", ":",
      "\n", " ", " ", " ", " ", "m", "o", "c", "k", "_", "s", "e", "r", "v", "i", "c", "e", ".", "r",
      "e", "t", "u", "r", "n", "_", "v", "a", "l", "u", "e", " ", "=", " ", "\"", "m", "o", "c", "k",
      "e", "d", "_", "r", "e", "s", "p", "o", "n", "s", "e", "\"", "\n", " ", " ", " ", " ", "#",
      " ", "T", "e", "s", "t", " ", "c", "o", "d", "e", " ", "h", "e", "r", "e", "\n", "U+0060",
      "U+0060", "U+0060", "\n">>

\* the body catalogued for ("python", "packaging"), one element per character
content_python_packaging ==
    <<"#", " ", "P", "y", "t", "h", "o", "n", " ", "P", "a", "c", "k", "a", "g", "i", "n", "g", " ",
      "G", "u", "i", "d", "e", "l", "i", "n", "e", "s", "\n", "\n", "#", "#", " ", "P", "r", "o",
      "j", "e", "c", "t", " ", "S", "t", "r", "u", "c", "t", "u", "r", "e", "\n", "U+0060", "U+0060",
      "U+0060", "\n", "p", "r", "o", "j", "e", "c", "t", "/", "\n", "U+251C", "U+2500", "U+2500",
      " ", "s", "r", "c", "/", "\n", "U+2502", " ", " ", " ", "U+2514", "U+2500", "U+2500", " ", "m",
      "y", "p", "a", "c", "k", "a", "g", "e", "/", "\n", "U+2502", " ", " ", " ", " ", " ", " ", " ",
      "U+251C", "U+2500", "U+2500", " ", "_", "_", "i", "n", "i", "t", "_", "_", ".", "p", "y", "\n",
      "U+2502", " ", " ", " ", " ", " ", " ", " ", "U+2514", "U+2500", "U+2500", " ", "m", "o", "d",
      "u", "l", "e", ".", "p", "y", "\n", "U+251C", "U+2500", "U+2500", " ", "t", "e", "s", "t", "s",
      "/", "\n", "U+251C", "U+2500", "U+2500", " ", "p", "y", "p", "r", "o", "j", "e", "c", "t", ".",
      "t", "o", "m", "l", "\n", "U+251C", "U+2500", "U+2500", " ", "R", "E", "A", "D", "M", "E", ".",
      "m", "d", "\n", "U+2514", "U+2500", "U+2500", " ", "r", "e", "q", "u", "i", "r", "e", "m", "e",
      "n", "t", "s", ".", "t", "x", "t", "\n", "U+0060", "U+0060", "U+0060", "\n", "\n", "#", "#",
      " ", "D", "e", "p", "e", "n", "d", "e", "n", "c", "y", " ", "M", "a", "n", "a", "g", "e", "m",
      "e", "n", "t", "\n", "-", " ", "U", "s", "e", " ", "v", "i", "r", "t", "u", "a", "l", " ", "e",
      "n", "v", "i", "r", "o", "n", "m", "e", "n", "t", "s", " ", "f", "o", "r", " ", "i", "s", "o",
      "l", "a", "t", "i", "o", "n", "\n", "-", " ", "P", "i", "n", " ", "d", "e", "p", "e", "n", "d",
      "e", "n", "c", "y", " ", "v", "e", "r", "s", "i", "o", "n", "s", " ", "i", "n", " ", "r", "e",
      "q", "u", "i", "r", "e", "m", "e", "n", "t", "s", ".", "t", "x", "t", "\n", "-", " ", "U", "s",
      "e", " ", "r", "e", "q", "u", "i", "r", "e", "m", "e", "n", "t", "s", "-", "d", "e", "v", ".",
      "t", "x", "t", " ", "f", "o", "r", " ", "d", "e", "v", "e", "l", "o", "p", "m", "e", "n", "t",
      " ", "d", "e", "p", "e", "n", "d", "e", "n", "c", "i", "e", "s", "\n", "\n", "#", "#", " ",
      "S", "e", "t", "u", "p", " ", "C", "o", "n", "f", "i", "g", "u", "r", "a", "t", "i", "o", "n",
      "\n", "U+0060", "U+0060", "U+0060", "t", "o", "m", "l", "\n", "[", "b", "u", "i", "l", "d",
      "-", "s", "y", "s", "t", "e", "m", "]", "\n", "r", "e", "q", "u", "i", "r", "e", "s", " ", "=",
      " ", "[", "\"", "s", "e", "t", "u", "p", "t", "o", "o", "l", "s", ">", "=", "4", "5", "\"",
      ",", " ", "\"", "w", "h", "e", "e", "l", "\"", "]", "\n", "b", "u", "i", "l", "d", "-", "b",
      "a", "c", "k", "e", "n", "d", " ", "=", " ", "\"", "s", "e", "t", "u", "p", "t", "o", "o", "l",
      "s", ".", "b", "u", "i", "l", "d", "_", "m", "e", "t", "a", "\"", "\n", "\n", "[", "p", "r",
      "o", "j", "e", "c", "t", "]", "\n", "n", "a", "m", "e", " ", "=", " ", "\"", "m", "y", "p",
      "a", "c", "k", "a", "g", "e", "\"", "\n", "v", "e", "r", "s", "i", "o", "n", " ", "=", " ",
      "\"", "0", ".", "1", ".", "0", "\"", "\n", "d", "e", "s", "c", "r", "i", "p", "t", "i", "o",
      "n", " ", "=", " ", "\"", "A", " ", "s", "a", "m", "p", "l", "e", " ", "p", "a", "c", "k", "a",
      "g", "e", "\"", "\n", "d", "e", "p", "e", "n", "d", "e", "n", "c", "i", "e", "s", " ", "=",
      " ", "[", "\n", " ", " ", " ", " ", "\"", "r", "e", "q", "u", "e", "s", "t", "s", ">", "=",
      "2", ".", "2", "5", ".", "0", "\"", ",", "\n", " ", " ", " ", " ", "\"", "c", "l", "i", "c",
      "k", ">", "=", "7", ".", "0", "\"", ",", "\n", "]", "\n", "U+0060", "U+0060", "U+0060", "\n",
      "\n", "#", "#", " ", "D", "i", "s", "t", "r", "i", "b", "u", "t", "i", "o", "n", "\n", "-",
      " ", "U", "s", "e", " ", "s", "e", "m", "a", "n", "t", "i", "c", " ", "v", "e", "r", "s", "i",
      "o", "n", "i", "n", "g", " ", "(", "M", "A", "J", "O", "R", ".", "M", "I", "N", "O", "R", ".",
      "P", "A", "T", "C", "H", ")", "\n", "-", " ", "I", "n", "c", "l", "u", "d", "e", " ", "c", "o",
      "m", "p", "r", "e", "h", "e", "n", "s", "i", "v", "e", " ", "R", "E", "A", "D", "M", "E", " ",
      "a", "n", "d", " ", "C", "H", "A", "N", "G", "E", "L", "O", "G", "\n", "-", " ", "U", "s", "e",
      " ", "G", "i", "t", "H", "u", "b", " ", "A", "c", "t", "i", "o", "n", "s", " ", "f", "o", "r",
      " ", "C", "I", "/", "C", "D", "\n", "-", " ", "P", "u", "b", "l", "i", "s", "h", " ", "t", "o",
      " ", "P", "y", "P", "I", " ", "u", "s", "i", "n", "g", " ", "t", "w", "i", "n", "e", "\n">>

\* the body catalogued for ("python", "performance"), one element per character
content_python_performance ==
    <<"#", " ", "P", "y", "t", "h", "o", "n", " ", "P", "e", "r", "f", "o", "r", "m", "a", "n", "c",
      "e", " ", "O", "p", "t", "i", "m", "i", "z", "a", "t", "i", "o", "n", "\n", "\n", "#", "#",
      " ", "P", "r", "o", "f", "i", "l", "i", "n", "g", " ", "T", "o", "o", "l", "s", "\n", "-", " ",
      "U", "s", "e", " ", "c", "P", "r", "o", "f", "i", "l", "e", " ", "f", "o", "r", " ", "c", "o",
      "d", "e", " ", "p", "r", "o", "f", "i", "l", "i", "n", "g", "\n", "-", " ", "U", "s", "e", " ",
      "m", "e", "m", "o", "r", "y", "_", "p", "r", "o", "f", "i", "l", "e", "r", " ", "f", "o", "r",
      " ", "m", "e", "m", "o", "r", "y", " ", "a", "n", "a", "l", "y", "s", "i", "s", "\n", "-", " ",
      "U", "s", "e", " ", "l", "i", "n", "e", "_", "p", "r", "o", "f", "i", "l", "e", "r", " ", "f",
      "o", "r", " ", "l", "i", "n", "e", "-", "b", "y", "-", "l", "i", "n", "e", " ", "a", "n", "a",
      "l", "y", "s", "i", "s", "\n", "\n", "#", "#", " ", "C", "o", "m", "m", "o", "n", " ", "O",
      "p", "t", "i", "m", "i", "z", "a", "t", "i", "o", "n", "s", "\n", "-", " ", "U", "s", "e", " ",
      "l", "i", "s", "t", " ", "c", "o", "m", "p", "r", "e", "h", "e", "n", "s", "i", "o", "n", "s",
      " ", "o", "v", "e", "r", " ", "l", "o", "o", "p", "s", " ", "w", "h", "e", "n", " ", "a", "p",
      "p", "r", "o", "p", "r", "i", "a", "t", "e", "\n", "-", " ", "P", "r", "e", "f", "e", "r", " ",
      "g", "e", "n", "e", "r", "a", "t", "o", "r", "s", " ", "f", "o", "r", " ", "l", "a", "r", "g",
      "e", " ", "d", "a", "t", "a", "s", "e", "t", "s", "\n", "-", " ", "U", "s", "e", " ", "b", "u",
      "i", "l", "t", "-", "i", "n", " ", "f", "u", "n", "c", "t", "i", "o", "n", "s", " ", "(", "t",
      "h", "e", "y", "'", "r", "e", " ", "o", "p", "t", "i", "m", "i", "z", "e", "d", " ", "i", "n",
      " ", "C", ")", "\n", "\n", "#", "#", " ", "D", "a", "t", "a", " ", "S", "t", "r", "u", "c",
      "t", "u", "r", "e", "s", "\n", "-", " ", "C", "h", "o", "o", "s", "e", " ", "a", "p", "p", "r",
      "o", "p", "r", "i", "a", "t", "e", " ", "d", "a", "t", "a", " ", "s", "t", "r", "u", "c", "t",
      "u", "r", "e", "s", " ", "(", "s", "e", "t", " ", "v", "s", " ", "l", "i", "s", "t", ")", "\n",
      "-", " ", "U", "s", "e", " ", "c", "o", "l", "l", "e", "c", "t", "i", "o", "n", "s", " ", "m",
      "o", "d", "u", "l", "e", " ", "(", "d", "e", "q", "u", "e", ",", " ", "C", "o", "u", "n", "t",
      "e", "r", ",", " ", "d", "e", "f", "a", "u", "l", "t", "d", "i", "c", "t", ")", "\n", "-", " ",
      "C", "o", "n", "s", "i", "d", "e", "r", " ", "n", "u", "m", "p", "y", " ", "f", "o", "r", " ",
      "n", "u", "m", "e", "r", "i", "c", "a", "l", " ", "c", "o", "m", "p", "u", "t", "a", "t", "i",
      "o", "n", "s", "\n", "\n", "#", "#", " ", "A", "l", "g", "o", "r", "i", "t", "h", "m", " ",
      "O", "p", "t", "i", "m", "i", "z", "a", "t", "i", "o", "n", "\n", "U+0060", "U+0060", "U+0060",
      "p", "y", "t", "h", "o", "n", "\n", "#", " ", "B", "a", "d", ":", " ", "O", "(", "n", "U+00B2",
      ")", "\n", "f", "o", "r", " ", "i", " ", "i", "n", " ", "l", "i", "s", "t", "1", ":", "\n",
      " ", " ", " ", " ", "i", "f", " ", "i", " ", "i", "n", " ", "l", "i", "s", "t", "2", ":", " ",
      " ", "#", " ", "L", "i", "n", "e", "a", "r", " ", "s", "e", "a", "r", "c", "h", " ", "e", "a",
      "c", "h", " ", "t", "i", "m", "e", "\n", " ", " ", " ", " ", " ", " ", " ", " ", "r", "e", "s",
      "u", "l", "t", ".", "a", "p", "p", "e", "n", "d", "(", "i", ")", "\n", "\n", "#", " ", "G",
      "o", "o", "d", ":", " ", "O", "(", "n", ")", "\n", "s", "e", "t", "2", " ", "=", " ", "s", "e",
      "t", "(", "l", "i", "s", "t", "2", ")", " ", " ", "#", " ", "C", "o", "n", "v", "e", "r", "t",
      " ", "t", "o", " ", "s", "e", "t", " ", "o", "n", "c", "e", "\n", "f", "o", "r", " ", "i", " ",
      "i", "n", " ", "l", "i", "s", "t", "1", ":", "\n", " ", " ", " ", " ", "i", "f", " ", "i", " ",
      "i", "n", " ", "s", "e", "t", "2", ":", " ", " ", "#", " ", "C", "o", "n", "s", "t", "a", "n",
      "t", " ", "t", "i", "m", "e", " ", "l", "o", "o", "k", "u", "p", "\n", " ", " ", " ", " ", " ",
      " ", " ", " ", "r", "e", "s", "u", "l", "t", ".", "a", "p", "p", "e", "n", "d", "(", "i", ")",
      "\n", "U+0060", "U+0060", "U+0060", "\n", "\n", "#", "#", " ", "M", "e", "m", "o", "r", "y",
      " ", "M", "a", "n", "a", "g", "e", "m", "e", "n", "t", "\n", "-", " ", "U", "s", "e", " ", "_",
      "_", "s", "l", "o", "t", "s", "_", "_", " ", "f", "o", "r", " ", "c", "l", "a", "s", "s", "e",
      "s", " ", "w", "i", "t", "h", " ", "m", "a", "n", "y", " ", "i", "n", "s", "t", "a", "n", "c",
      "e", "s", "\n", "-", " ", "D", "e", "l", "e", "t", "e", " ", "l", "a", "r", "g", "e", " ", "o",
      "b", "j", "e", "c", "t", "s", " ", "w", "h", "e", "n", " ", "d", "o", "n", "e", "\n", "-", " ",
      "U", "s", "e", " ", "w", "e", "a", "k", " ", "r", "e", "f", "e", "r", "e", "n", "c", "e", "s",
      " ", "t", "o", " ", "b", "r", "e", "a", "k", " ", "c", "i", "r", "c", "u", "l", "a", "r", " ",
      "r", "e", "f", "e", "r", "e", "n", "c", "e", "s", "\n">>

\* the body catalogued for ("python", "async"), one element per character
content_python_async ==
    <<"#", " ", "P", "y", "t", "h", "o", "n", " ", "A", "s", "y", "n", "c", "h", "r", "o", "n", "o",
      "u", "s", " ", "P", "r", "o", "g", "r", "a", "m", "m", "i", "n", "g", "\n", "\n", "#", "#",
      " ", "a", "s", "y", "n", "c", "i", "o", " ", "B", "a", "s", "i", "c", "s", "\n", "-", " ", "U",
      "s", "e", " ", "a", "s", "y", "n", "c", "/", "a", "w", "a", "i", "t", " ", "f", "o", "r", " ",
      "a", "s", "y", "n", "c", "h", "r", "o", "n", "o", "u", "s", " ", "o", "p", "e", "r", "a", "t",
      "i", "o", "n", "s", "\n", "-", " ", "R", "u", "n", " ", "a", "s", "y", "n", "c", " ", "f", "u",
      "n", "c", "t", "i", "o", "n", "s", " ", "w", "i", "t", "h", " ", "a", "s", "y", "n", "c", "i",
      "o", ".", "r", "u", "n", "(", ")", "\n", "-", " ", "U", "s", "e", " ", "a", "s", "y", "n", "c",
      " ", "c", "o", "n", "t", "e", "x", "t", " ", "m", "a", "n", "a", "g", "e", "r", "s", " ", "a",
      "n", "d", " ", "i", "t", "e", "r", "a", "t", "o", "r", "s", "\n", "\n", "#", "#", " ", "C",
      "o", "m", "m", "o", "n", " ", "P", "a", "t", "t", "e", "r", "n", "s", "\n", "U+0060", "U+0060",
      "U+0060", "p", "y", "t", "h", "o", "n", "\n", "i", "m", "p", "o", "r", "t", " ", "a", "s", "y",
      "n", "c", "i", "o", "\n", "i", "m", "p", "o", "r", "t", " ", "a", "i", "o", "h", "t", "t", "p",
      "\n", "\n", "a", "s", "y", "n", "c", " ", "d", "e", "f", " ", "f", "e", "t", "c", "h", "_",
      "d", "a", "t", "a", "(", "u", "r", "l", ")", ":", "\n", " ", " ", " ", " ", "a", "s", "y", "n",
      "c", " ", "w", "i", "t", "h", " ", "a", "i", "o", "h", "t", "t", "p", ".", "C", "l", "i", "e",
      "n", "t", "S", "e", "s", "s", "i", "o", "n", "(", ")", " ", "a", "s", " ", "s", "e", "s", "s",
      "i", "o", "n", ":", "\n", " ", " ", " ", " ", " ", " ", " ", " ", "a", "s", "y", "n", "c", " ",
      "w", "i", "t", "h", " ", "s", "e", "s", "s", "i", "o", "n", ".", "g", "e", "t", "(", "u", "r",
      "l", ")", " ", "a", "s", " ", "r", "e", "s", "p", "o", "n", "s", "e", ":", "\n", " ", " ", " ",
      " ", " ", " ", " ", " ", " ", " ", " ", " ", "r", "e", "t", "u", "r", "n", " ", "a", "w", "a",
      "i", "t", " ", "r", "e", "s", "p", "o", "n", "s", "e", ".", "t", "e", "x", "t", "(", ")", "\n",
      "\n", "a", "s", "y", "n", "c", " ", "d", "e", "f", " ", "m", "a", "i", "n", "(", ")", ":",
      "\n", " ", " ", " ", " ", "u", "r", "l", "s", " ", "=", " ", "[", "\"", "h", "t", "t", "p",
      ":", "/", "/", "e", "x", "a", "m", "p", "l", "e", "1", ".", "c", "o", "m", "\"", ",", " ",
      "\"", "h", "t", "t", "p", ":", "/", "/", "e", "x", "a", "m", "p", "l", "e", "2", ".", "c", "o",
      "m", "\"", "]", "\n", " ", " ", " ", " ", "t", "a", "s", "k", "s", " ", "=", " ", "[", "f",
      "e", "t", "c", "h", "_", "d", "a", "t", "a", "(", "u", "r", "l", ")", " ", "f", "o", "r", " ",
      "u", "r", "l", " ", "i", "n", " ", "u", "r", "l", "s", "]", "\n", " ", " ", " ", " ", "r", "e",
      "s", "u", "l", "t", "s", " ", "=", " ", "a", "w", "a", "i", "t", " ", "a", "s", "y", "n", "c",
      "i", "o", ".", "g", "a", "t", "h", "e", "r", "(", "*", "t", "a", "s", "k", "s", ")", "\n", " ",
      " ", " ", " ", "r", "e", "t", "u", "r", "n", " ", "r", "e", "s", "u", "l", "t", "s", "\n",
      "U+0060", "U+0060", "U+0060", "\n", "\n", "#", "#", " ", "B", "e", "s", "t", " ", "P", "r",
      "a", "c", "t", "i", "c", "e", "s", "\n", "-", " ", "D", "o", "n", "'", "t", " ", "m", "i", "x",
      " ", "b", "l", "o", "c", "k", "i", "n", "g", " ", "a", "n", "d", " ", "n", "o", "n", "-", "b",
      "l", "o", "c", "k", "i", "n", "g", " ", "c", "o", "d", "e", "\n", "-", " ", "U", "s", "e", " ",
      "a", "s", "y", "n", "c", "i", "o", ".", "g", "a", "t", "h", "e", "r", "(", ")", " ", "f", "o",
      "r", " ", "c", "o", "n", "c", "u", "r", "r", "e", "n", "t", " ", "o", "p", "e", "r", "a", "t",
      "i", "o", "n", "s", "\n", "-", " ", "H", "a", "n", "d", "l", "e", " ", "e", "x", "c", "e", "p",
      "t", "i", "o", "n", "s", " ", "p", "r", "o", "p", "e", "r", "l", "y", " ", "i", "n", " ", "a",
      "s", "y", "n", "c", " ", "c", "o", "d", "e", "\n", "-", " ", "U", "s", "e", " ", "a", "s", "y",
      "n", "c", " ", "l", "i", "b", "r", "a", "r", "i", "e", "s", " ", "(", "a", "i", "o", "h", "t",
      "t", "p", ",", " ", "a", "s", "y", "n", "c", "p", "g", ")", " ", "f", "o", "r", " ", "I", "/",
      "O", "\n", "\n", "#", "#", " ", "P", "e", "r", "f", "o", "r", "m", "a", "n", "c", "e", " ",
      "C", "o", "n", "s", "i", "d", "e", "r", "a", "t", "i", "o", "n", "s", "\n", "-", " ", "A", "s",
      "y", "n", "c", " ", "i", "s", " ", "b", "e", "s", "t", " ", "f", "o", "r", " ", "I", "/", "O",
      "-", "b", "o", "u", "n", "d", " ", "o", "p", "e", "r", "a", "t", "i", "o", "n", "s", "\n", "-",
      " ", "U", "s", "e", " ", "t", "h", "r", "e", "a", "d", " ", "p", "o", "o", "l", "s", " ", "f",
      "o", "r", " ", "C", "P", "U", "-", "b", "o", "u", "n", "d", " ", "w", "o", "r", "k", "\n", "-",
      " ", "M", "o", "n", "i", "t", "o", "r", " ", "e", "v", "e", "n", "t", " ", "l", "o", "o", "p",
      " ", "p", "e", "r", "f", "o", "r", "m", "a", "n", "c", "e", "\n", "-", " ", "A", "v", "o", "i",
      "d", " ", "b", "l", "o", "c", "k", "i", "n", "g", " ", "o", "p", "e", "r", "a", "t", "i", "o",
      "n", "s", " ", "i", "n", " ", "a", "s", "y", "n", "c", " ", "f", "u", "n", "c", "t", "i", "o",
      "n", "s", "\n">>

\* the body catalogued for ("javascript", "code-styling"), one element per character
content_javascript_code_styling ==
    <<"#", " ", "J", "a", "v", "a", "S", "c", "r", "i", "p", "t", " ", "C", "o", "d", "e", " ", "S",
      "t", "y", "l", "i", "n", "g", " ", "G", "u", "i", "d", "e", "l", "i", "n", "e", "s", "\n",
      "\n", "#", "#", " ", "E", "S", "L", "i", "n", "t", " ", "a", "n", "d", " ", "P", "r", "e", "t",
      "t", "i", "e", "r", "\n", "-", " ", "U", "s", "e", " ", "E", "S", "L", "i", "n", "t", " ", "f",
      "o", "r", " ", "c", "o", "d", "e", " ", "l", "i", "n", "t", "i", "n", "g", "\n", "-", " ", "U",
      "s", "e", " ", "P", "r", "e", "t", "t", "i", "e", "r", " ", "f", "o", "r", " ", "c", "o", "d",
      "e", " ", "f", "o", "r", "m", "a", "t", "t", "i", "n", "g", "\n", "-", " ", "C", "o", "n", "f",
      "i", "g", "u", "r", "e", " ", "b", "o", "t", "h", " ", "i", "n", " ", "y", "o", "u", "r", " ",
      "p", "r", "o", "j", "e", "c", "t", "\n", "\n", "#", "#", " ", "V", "a", "r", "i", "a", "b",
      "l", "e", " ", "D", "e", "c", "l", "a", "r", "a", "t", "i", "o", "n", "s", "\n", "-", " ", "U",
      "s", "e", " ", "U+0060", "c", "o", "n", "s", "t", "U+0060", " ", "b", "y", " ", "d", "e", "f",
      "a", "u", "l", "t", "\n", "-", " ", "U", "s", "e", " ", "U+0060", "l", "e", "t", "U+0060", " ",
      "w", "h", "e", "n", " ", "r", "e", "a", "s", "s", "i", "g", "n", "m", "e", "n", "t", " ", "i",
      "s", " ", "n", "e", "e", "d", "e", "d", "\n", "-", " ", "A", "v", "o", "i", "d", " ", "U+0060",
      "v", "a", "r", "U+0060", " ", "c", "o", "m", "p", "l", "e", "t", "e", "l", "y", "\n", "\n",
      "#", "#", " ", "F", "u", "n", "c", "t", "i", "o", "n", " ", "D", "e", "c", "l", "a", "r", "a",
      "t", "i", "o", "n", "s", "\n", "U+0060", "U+0060", "U+0060", "j", "a", "v", "a", "s", "c", "r",
      "i", "p", "t", "\n", "/", "/", " ", "P", "r", "e", "f", "e", "r", " ", "a", "r", "r", "o", "w",
      " ", "f", "u", "n", "c", "t", "i", "o", "n", "s", " ", "f", "o", "r", " ", "s", "h", "o", "r",
      "t", " ", "f", "u", "n", "c", "t", "i", "o", "n", "s", "\n", "c", "o", "n", "s", "t", " ", "a",
      "d", "d", " ", "=", " ", "(", "a", ",", " ", "b", ")", " ", "=", ">", " ", "a", " ", "+", " ",
      "b", ";", "\n", "\n", "/", "/", " ", "U", "s", "e", " ", "f", "u", "n", "c", "t", "i", "o",
      "n", " ", "d", "e", "c", "l", "a", "r", "a", "t", "i", "o", "n", "s", " ", "f", "o", "r", " ",
      "n", "a", "m", "e", "d", " ", "f", "u", "n", "c", "t", "i", "o", "n", "s", "\n", "f", "u", "n",
      "c", "t", "i", "o", "n", " ", "c", "a", "l", "c", "u", "l", "a", "t", "e", "T", "o", "t", "a",
      "l", "(", "i", "t", "e", "m", "s", ")", " ", "{", "\n", " ", " ", " ", " ", "r", "e", "t", "u",
      "r", "n", " ", "i", "t", "e", "m", "s", ".", "r", "e", "d", "u", "c", "e", "(", "(", "s", "u",
      "m", ",", " ", "i", "t", "e", "m", ")", " ", "=", ">", " ", "s", "u", "m", " ", "+", " ", "i",
      "t", "e", "m", ".", "p", "r", "i", "c", "e", ",", " ", "0", ")", ";", "\n", "}", "\n",
      "U+0060", "U+0060", "U+0060", "\n", "\n", "#", "#", " ", "O", "b", "j", "e", "c", "t", " ",
      "a", "n", "d", " ", "A", "r", "r", "a", "y", " ", "D", "e", "s", "t", "r", "u", "c", "t", "u",
      "r", "i", "n", "g", "\n", "U+0060", "U+0060", "U+0060", "j", "a", "v", "a", "s", "c", "r", "i",
      "p", "t", "\n", "/", "/", " ", "O", "b", "j", "e", "c", "t", " ", "d", "e", "s", "t", "r", "u",
      "c", "t", "u", "r", "i", "n", "g", "\n", "c", "o", "n", "s", "t", " ", "{", " ", "n", "a", "m",
      "e", ",", " ", "a", "g", "e", " ", "}", " ", "=", " ", "u", "s", "e", "r", ";", "\n", "\n",
      "/", "/", " ", "A", "r", "r", "a", "y", " ", "d", "e", "s", "t", "r", "u", "c", "t", "u", "r",
      "i", "n", "g", "\n", "c", "o", "n", "s", "t", " ", "[", "f", "i", "r", "s", "t", ",", " ", "s",
      "e", "c", "o", "n", "d", "]", " ", "=", " ", "i", "t", "e", "m", "s", ";", "\n", "\n", "/",
      "/", " ", "F", "u", "n", "c", "t", "i", "o", "n", " ", "p", "a", "r", "a", "m", "e", "t", "e",
      "r", "s", "\n", "f", "u", "n", "c", "t", "i", "o", "n", " ", "g", "r", "e", "e", "t", "(", "{",
      " ", "n", "a", "m", "e", ",", " ", "a", "g", "e", " ", "=", " ", "0", " ", "}", ")", " ", "{",
      "\n", " ", " ", " ", " ", "r", "e", "t", "u", "r", "n", " ", "U+0060", "H", "e", "l", "l", "o",
      " ", "$", "{", "n", "a", "m", "e", "}", ",", " ", "y", "o", "u", " ", "a", "r", "e", " ", "$",
      "{", "a", "g", "e", "}", " ", "y", "e", "a", "r", "s", " ", "o", "l", "d", "U+0060", ";", "\n",
      "}", "\n", "U+0060", "U+0060", "U+0060", "\n", "\n", "#", "#", " ", "M", "o", "d", "e", "r",
      "n", " ", "S", "y", "n", "t", "a", "x", "\n", "-", " ", "U", "s", "e", " ", "t", "e", "m", "p",
      "l", "a", "t", "e", " ", "l", "i", "t", "e", "r", "a", "l", "s", " ", "f", "o", "r", " ", "s",
      "t", "r", "i", "n", "g", " ", "i", "n", "t", "e", "r", "p", "o", "l", "a", "t", "i", "o", "n",
      "\n", "-", " ", "U", "s", "e", " ", "o", "p", "t", "i", "o", "n", "a", "l", " ", "c", "h", "a",
      "i", "n", "i", "n", "g", " ", "(", "?", ".", ")", " ", "a", "n", "d", " ", "n", "u", "l", "l",
      "i", "s", "h", " ", "c", "o", "a", "l", "e", "s", "c", "i", "n", "g", " ", "(", "?", "?", ")",
      "\n", "-", " ", "P", "r", "e", "f", "e", "r", " ", "a", "s", "y", "n", "c", "/", "a", "w", "a",
      "i", "t", " ", "o", "v", "e", "r", " ", "P", "r", "o", "m", "i", "s", "e", " ", "c", "h", "a",
      "i", "n", "s", "\n">>

\* the body catalogued for ("javascript", "testing"), one element per character
content_javascript_testing ==
    <<"#", " ", "J", "a", "v", "a", "S", "c", "r", "i", "p", "t", " ", "T", "e", "s", "t", "i", "n",
      "g", " ", "B", "e", "s", "t", " ", "P", "r", "a", "c", "t", "i", "c", "e", "s", "\n", "\n",
      "#", "#", " ", "T", "e", "s", "t", "i", "n", "g", " ", "F", "r", "a", "m", "e", "w", "o", "r",
      "k", "\n", "-", " ", "U", "s", "e", " ", "J", "e", "s", "t", " ", "f", "o", "r", " ", "u", "n",
      "i", "t", " ", "a", "n", "d", " ", "i", "n", "t", "e", "g", "r", "a", "t", "i", "o", "n", " ",
      "t", "e", "s", "t", "i", "n", "g", "\n", "-", " ", "U", "s", "e", " ", "T", "e", "s", "t", "i",
      "n", "g", " ", "L", "i", "b", "r", "a", "r", "y", " ", "f", "o", "r", " ", "R", "e", "a", "c",
      "t", " ", "c", "o", "m", "p", "o", "n", "e", "n", "t", " ", "t", "e", "s", "t", "i", "n", "g",
      "\n", "-", " ", "U", "s", "e", " ", "C", "y", "p", "r", "e", "s", "s", " ", "o", "r", " ", "P",
      "l", "a", "y", "w", "r", "i", "g", "h", "t", " ", "f", "o", "r", " ", "E", "2", "E", " ", "t",
      "e", "s", "t", "i", "n", "g", "\n", "\n", "#", "#", " ", "T", "e", "s", "t", " ", "S", "t",
      "r", "u", "c", "t", "u", "r", "e", "\n", "U+0060", "U+0060", "U+0060", "j", "a", "v", "a", "s",
      "c", "r", "i", "p", "t", "\n", "d", "e", "s", "c", "r", "i", "b", "e", "(", "'", "C", "a", "l",
      "c", "u", "l", "a", "t", "o", "r", "'", ",", " ", "(", ")", " ", "=", ">", " ", "{", "\n", " ",
      " ", " ", " ", "t", "e", "s", "t", "(", "'", "s", "h", "o", "u", "l", "d", " ", "a", "d", "d",
      " ", "t", "w", "o", " ", "n", "u", "m", "b", "e", "r", "s", " ", "c", "o", "r", "r", "e", "c",
      "t", "l", "y", "'", ",", " ", "(", ")", " ", "=", ">", " ", "{", "\n", " ", " ", " ", " ", " ",
      " ", " ", " ", "/", "/", " ", "A", "r", "r", "a", "n", "g", "e", "\n", " ", " ", " ", " ", " ",
      " ", " ", " ", "c", "o", "n", "s", "t", " ", "a", " ", "=", " ", "5", ";", "\n", " ", " ", " ",
      " ", " ", " ", " ", " ", "c", "o", "n", "s", "t", " ", "b", " ", "=", " ", "3", ";", "\n", " ",
      " ", " ", " ", " ", " ", " ", " ", "\n", " ", " ", " ", " ", " ", " ", " ", " ", "/", "/", " ",
      "A", "c", "t", "\n", " ", " ", " ", " ", " ", " ", " ", " ", "c", "o", "n", "s", "t", " ", "r",
      "e", "s", "u", "l", "t", " ", "=", " ", "a", "d", "d", "(", "a", ",", " ", "b", ")", ";", "\n",
      " ", " ", " ", " ", " ", " ", " ", " ", "\n", " ", " ", " ", " ", " ", " ", " ", " ", "/", "/",
      " ", "A", "s", "s", "e", "r", "t", "\n", " ", " ", " ", " ", " ", " ", " ", " ", "e", "x", "p",
      "e", "c", "t", "(", "r", "e", "s", "u", "l", "t", ")", ".", "t", "o", "B", "e", "(", "8", ")",
      ";", "\n", " ", " ", " ", " ", "}", ")", ";", "\n", "}", ")", ";", "\n", "U+0060", "U+0060",
      "U+0060", "\n", "\n", "#", "#", " ", "M", "o", "c", "k", "i", "n", "g", " ", "a", "n", "d",
      " ", "S", "p", "i", "e", "s", "\n", "U+0060", "U+0060", "U+0060", "j", "a", "v", "a", "s", "c",
      "r", "i", "p", "t", "\n", "/", "/", " ", "M", "o", "c", "k", " ", "f", "u", "n", "c", "t", "i",
      "o", "n", "s", "\n", "c", "o", "n", "s", "t", " ", "m", "o", "c", "k", "F", "n", " ", "=", " ",
      "j", "e", "s", "t", ".", "f", "n", "(", ")", ";", "\n", "m", "o", "c", "k", "F", "n", ".", "m",
      "o", "c", "k", "R", "e", "t", "u", "r", "n", "V", "a", "l", "u", "e", "(", "'", "m", "o", "c",
      "k", "e", "d", " ", "v", "a", "l", "u", "e", "'", ")", ";", "\n", "\n", "/", "/", " ", "S",
      "p", "y", " ", "o", "n", " ", "m", "e", "t", "h", "o", "d", "s", "\n", "c", "o", "n", "s", "t",
      " ", "s", "p", "y", " ", "=", " ", "j", "e", "s", "t", ".", "s", "p", "y", "O", "n", "(", "o",
      "b", "j", "e", "c", "t", ",", " ", "'", "m", "e", "t", "h", "o", "d", "'", ")", ";", "\n", "e",
      "x", "p", "e", "c", "t", "(", "s", "p", "y", ")", ".", "t", "o", "H", "a", "v", "e", "B", "e",
      "e", "n", "C", "a", "l", "l", "e", "d", "W", "i", "t", "h", "(", "e", "x", "p", "e", "c", "t",
      "e", "d", "A", "r", "g", "s", ")", ";", "\n", "U+0060", "U+0060", "U+0060", "\n", "\n", "#",
      "#", " ", "A", "s", "y", "n", "c", " ", "T", "e", "s", "t", "i", "n", "g", "\n", "U+0060",
      "U+0060", "U+0060", "j", "a", "v", "a", "s", "c", "r", "i", "p", "t", "\n", "t", "e", "s", "t",
      "(", "'", "a", "s", "y", "n", "c", " ", "f", "u", "n", "c", "t", "i", "o", "n", " ", "t", "e",
      "s", "t", "'", ",", " ", "a", "s", "y", "n", "c", " ", "(", ")", " ", "=", ">", " ", "{", "\n",
      " ", " ", " ", " ", "c", "o", "n", "s", "t", " ", "r", "e", "s", "u", "l", "t", " ", "=", " ",
      "a", "w", "a", "i", "t", " ", "f", "e", "t", "c", "h", "D", "a", "t", "a", "(", ")", ";", "\n",
      " ", " ", " ", " ", "e", "x", "p", "e", "c", "t", "(", "r", "e", "s", "u", "l", "t", ")", ".",
      "t", "o", "B", "e", "D", "e", "f", "i", "n", "e", "d", "(", ")", ";", "\n", "}", ")", ";",
      "\n", "\n", "t", "e", "s", "t", "(", "'", "p", "r", "o", "m", "i", "s", "e", " ", "r", "e",
      "j", "e", "c", "t", "i", "o", "n", "'", ",", " ", "a", "s", "y", "n", "c", " ", "(", ")", " ",
      "=", ">", " ", "{", "\n", " ", " ", " ", " ", "a", "w", "a", "i", "t", " ", "e", "x", "p", "e",
      "c", "t", "(", "f", "a", "i", "l", "i", "n", "g", "F", "u", "n", "c", "t", "i", "o", "n", "(",
      ")", ")", ".", "r", "e", "j", "e", "c", "t", "s", ".", "t", "o", "T", "h", "r", "o", "w", "(",
      "'", "E", "r", "r", "o", "r", " ", "m", "e", "s", "s", "a", "g", "e", "'", ")", ";", "\n", "}",
      ")", ";", "\n", "U+0060", "U+0060", "U+0060", "\n", "\n", "#", "#", " ", "B", "e", "s", "t",
      " ", "P", "r", "a", "c", "t", "i", "c", "e", "s", "\n", "-", " ", "W", "r", "i", "t", "e", " ",
      "t", "e", "s", "t", "s", " ", "b", "e", "f", "o", "r", "e", " ", "o", "r", " ", "a", "l", "o",
      "n", "g", "s", "i", "d", "e", " ", "c", "o", "d", "e", " ", "(", "T", "D", "D", ")", "\n", "-",
      " ", "T", "e", "s", "t", " ", "b", "e", "h", "a", "v", "i", "o", "r", ",", " ", "n", "o", "t",
      " ", "i", "m", "p", "l", "e", "m", "e", "n", "t", "a", "t", "i", "o", "n", "\n", "-", " ", "K",
      "e", "e", "p", " ", "t", "e", "s", "t", "s", " ", "s", "i", "m", "p", "l", "e", " ", "a", "n",
      "d", " ", "f", "o", "c", "u", "s", "e", "d", "\n", "-", " ", "U", "s", "e", " ", "d", "e", "s",
      "c", "r", "i", "p", "t", "i", "v", "e", " ", "t", "e", "s", "t", " ", "n", "a", "m", "e", "s",
      "\n">>

\* the body catalogued for ("react", "components"), one element per character
content_react_components ==
    <<"#", " ", "R", "e", "a", "c", "t", " ", "C", "o", "m", "p", "o", "n", "e", "n", "t", "s", " ",
      "B", "e", "s", "t", " ", "P", "r", "a", "c", "t", "i", "c", "e", "s", "\n", "\n", "#", "#",
      " ", "F", "u", "n", "c", "t", "i", "o", "n", "a", "l", " ", "C", "o", "m", "p", "o", "n", "e",
      "n", "t", "s", "\n", "-", " ", "A", "l", "w", "a", "y", "s", " ", "u", "s", "e", " ", "f", "u",
      "n", "c", "t", "i", "o", "n", "a", "l", " ", "c", "o", "m", "p", "o", "n", "e", "n", "t", "s",
      " ", "o", "v", "e", "r", " ", "c", "l", "a", "s", "s", " ", "c", "o", "m", "p", "o", "n", "e",
      "n", "t", "s", "\n", "-", " ", "K", "e", "e", "p", " ", "c", "o", "m", "p", "o", "n", "e", "n",
      "t", "s", " ", "s", "m", "a", "l", "l", " ", "a", "n", "d", " ", "f", "o", "c", "u", "s", "e",
      "d", "\n", "-", " ", "U", "s", "e", " ", "T", "y", "p", "e", "S", "c", "r", "i", "p", "t", " ",
      "f", "o", "r", " ", "b", "e", "t", "t", "e", "r", " ", "t", "y", "p", "e", " ", "s", "a", "f",
      "e", "t", "y", "\n", "\n", "#", "#", " ", "C", "o", "m", "p", "o", "n", "e", "n", "t", " ",
      "S", "t", "r", "u", "c", "t", "u", "r", "e", "\n", "U+0060", "U+0060", "U+0060", "j", "s", "x",
      "\n", "i", "m", "p", "o", "r", "t", " ", "R", "e", "a", "c", "t", " ", "f", "r", "o", "m", " ",
      "'", "r", "e", "a", "c", "t", "'", ";", "\n", "i", "m", "p", "o", "r", "t", " ", "P", "r", "o",
      "p", "T", "y", "p", "e", "s", " ", "f", "r", "o", "m", " ", "'", "p", "r", "o", "p", "-", "t",
      "y", "p", "e", "s", "'", ";", "\n", "\n", "c", "o", "n", "s", "t", " ", "U", "s", "e", "r",
      "C", "a", "r", "d", " ", "=", " ", "(", "{", " ", "u", "s", "e", "r", ",", " ", "o", "n", "E",
      "d", "i", "t", ",", " ", "c", "l", "a", "s", "s", "N", "a", "m", "e", " ", "=", " ", "'", "'",
      " ", "}", ")", " ", "=", ">", " ", "{", "\n", " ", " ", " ", " ", "r", "e", "t", "u", "r", "n",
      " ", "(", "\n", " ", " ", " ", " ", " ", " ", " ", " ", "<", "d", "i", "v", " ", "c", "l", "a",
      "s", "s", "N", "a", "m", "e", "=", "{", "U+0060", "u", "s", "e", "r", "-", "c", "a", "r", "d",
      " ", "$", "{", "c", "l", "a", "s", "s", "N", "a", "m", "e", "}", "U+0060", "}", ">", "\n", " ",
      " ", " ", " ", " ", " ", " ", " ", " ", " ", " ", " ", "<", "h", "3", ">", "{", "u", "s", "e",
      "r", ".", "n", "a", "m", "e", "}", "<", "/", "h", "3", ">", "\n", " ", " ", " ", " ", " ", " ",
      " ", " ", " ", " ", " ", " ", "<", "p", ">", "{", "u", "s", "e", "r", ".", "e", "m", "a", "i",
      "l", "}", "<", "/", "p", ">", "\n", " ", " ", " ", " ", " ", " ", " ", " ", " ", " ", " ", " ",
      "<", "b", "u", "t", "t", "o", "n", " ", "o", "n", "C", "l", "i", "c", "k", "=", "{", "(", ")",
      " ", "=", ">", " ", "o", "n", "E", "d", "i", "t", "(", "u", "s", "e", "r", ".", "i", "d", ")",
      "}", ">", "\n", " ", " ", " ", " ", " ", " ", " ", " ", " ", " ", " ", " ", " ", " ", " ", " ",
      "E", "d", "i", "t", " ", "U", "s", "e", "r", "\n", " ", " ", " ", " ", " ", " ", " ", " ", " ",
      " ", " ", " ", "<", "/", "b", "u", "t", "t", "o", "n", ">", "\n", " ", " ", " ", " ", " ", " ",
      " ", " ", "<", "/", "d", "i", "v", ">", "\n", " ", " ", " ", " ", ")", ";", "\n", "}", ";",
      "\n", "\n", "U", "s", "e", "r", "C", "a", "r", "d", ".", "p", "r", "o", "p", "T", "y", "p",
      "e", "s", " ", "=", " ", "{", "\n", " ", " ", " ", " ", "u", "s", "e", "r", ":", " ", "P", "r",
      "o", "p", "T", "y", "p", "e", "s", ".", "s", "h", "a", "p", "e", "(", "{", "\n", " ", " ", " ",
      " ", " ", " ", " ", " ", "i", "d", ":", " ", "P", "r", "o", "p", "T", "y", "p", "e", "s", ".",
      "n", "u", "m", "b", "e", "r", ".", "i", "s", "R", "e", "q", "u", "i", "r", "e", "d", ",", "\n",
      " ", " ", " ", " ", " ", " ", " ", " ", "n", "a", "m", "e", ":", " ", "P", "r", "o", "p", "T",
      "y", "p", "e", "s", ".", "s", "t", "r", "i", "n", "g", ".", "i", "s", "R", "e", "q", "u", "i",
      "r", "e", "d", ",", "\n", " ", " ", " ", " ", " ", " ", " ", " ", "e", "m", "a", "i", "l", ":",
      " ", "P", "r", "o", "p", "T", "y", "p", "e", "s", ".", "s", "t", "r", "i", "n", "g", ".", "i",
      "s", "R", "e", "q", "u", "i", "r", "e", "d", ",", "\n", " ", " ", " ", " ", "}", ")", ".", "i",
      "s", "R", "e", "q", "u", "i", "r", "e", "d", ",", "\n", " ", " ", " ", " ", "o", "n", "E", "d",
      "i", "t", ":", " ", "P", "r", "o", "p", "T", "y", "p", "e", "s", ".", "f", "u", "n", "c", ".",
      "i", "s", "R", "e", "q", "u", "i", "r", "e", "d", ",", "\n", " ", " ", " ", " ", "c", "l", "a",
      "s", "s", "N", "a", "m", "e", ":", " ", "P", "r", "o", "p", "T", "y", "p", "e", "s", ".", "s",
      "t", "r", "i", "n", "g", ",", "\n", "}", ";", "\n", "\n", "e", "x", "p", "o", "r", "t", " ",
      "d", "e", "f", "a", "u", "l", "t", " ", "U", "s", "e", "r", "C", "a", "r", "d", ";", "\n",
      "U+0060", "U+0060", "U+0060", "\n", "\n", "#", "#", " ", "C", "o", "m", "p", "o", "n", "e",
      "n", "t", " ", "O", "r", "g", "a", "n", "i", "z", "a", "t", "i", "o", "n", "\n", "-", " ", "O",
      "n", "e", " ", "c", "o", "m", "p", "o", "n", "e", "n", "t", " ", "p", "e", "r", " ", "f", "i",
      "l", "e", "\n", "-", " ", "U", "s", "e", " ", "i", "n", "d", "e", "x", ".", "j", "s", " ", "f",
      "i", "l", "e", "s", " ", "f", "o", "r", " ", "c", "l", "e", "a", "n", "e", "r", " ", "i", "m",
      "p", "o", "r", "t", "s", "\n", "-", " ", "G", "r", "o", "u", "p", " ", "r", "e", "l", "a", "t",
      "e", "d", " ", "c", "o", "m", "p", "o", "n", "e", "n", "t", "s", " ", "i", "n", " ", "f", "o",
      "l", "d", "e", "r", "s", "\n", "-", " ", "S", "e", "p", "a", "r", "a", "t", "e", " ", "p", "r",
      "e", "s", "e", "n", "t", "a", "t", "i", "o", "n", " ", "a", "n", "d", " ", "c", "o", "n", "t",
      "a", "i", "n", "e", "r", " ", "c", "o", "m", "p", "o", "n", "e", "n", "t", "s", "\n">>

\* the body catalogued for ("react", "hooks"), one element per character
content_react_hooks ==
    <<"#", " ", "R", "e", "a", "c", "t", " ", "H", "o", "o", "k", "s", " ", "G", "u", "i", "d", "e",
      "l", "i", "n", "e", "s", "\n", "\n", "#", "#", " ", "B", "u", "i", "l", "t", "-", "i", "n",
      " ", "H", "o", "o", "k", "s", "\n", "U+0060", "U+0060", "U+0060", "j", "s", "x", "\n", "i",
      "m", "p", "o", "r", "t", " ", "R", "e", "a", "c", "t", ",", " ", "{", " ", "u", "s", "e", "S",
      "t", "a", "t", "e", ",", " ", "u", "s", "e", "E", "f", "f", "e", "c", "t", ",", " ", "u", "s",
      "e", "M", "e", "m", "o", ",", " ", "u", "s", "e", "C", "a", "l", "l", "b", "a", "c", "k", " ",
      "}", " ", "f", "r", "o", "m", " ", "'", "r", "e", "a", "c", "t", "'", ";", "\n", "\n", "c",
      "o", "n", "s", "t", " ", "U", "s", "e", "r", "L", "i", "s", "t", " ", "=", " ", "(", "{", " ",
      "u", "s", "e", "r", "s", ",", " ", "o", "n", "U", "s", "e", "r", "S", "e", "l", "e", "c", "t",
      " ", "}", ")", " ", "=", ">", " ", "{", "\n", " ", " ", " ", " ", "c", "o", "n", "s", "t", " ",
      "[", "f", "i", "l", "t", "e", "r", ",", " ", "s", "e", "t", "F", "i", "l", "t", "e", "r", "]",
      " ", "=", " ", "u", "s", "e", "S", "t", "a", "t", "e", "(", "'", "'", ")", ";", "\n", " ", " ",
      " ", " ", "c", "o", "n", "s", "t", " ", "[", "l", "o", "a", "d", "i", "n", "g", ",", " ", "s",
      "e", "t", "L", "o", "a", "d", "i", "n", "g", "]", " ", "=", " ", "u", "s", "e", "S", "t", "a",
      "t", "e", "(", "f", "a", "l", "s", "e", ")", ";", "\n", " ", " ", " ", " ", "\n", " ", " ",
      " ", " ", "/", "/", " ", "M", "e", "m", "o", "i", "z", "e", " ", "e", "x", "p", "e", "n", "s",
      "i", "v", "e", " ", "c", "a", "l", "c", "u", "l", "a", "t", "i", "o", "n", "s", "\n", " ", " ",
      " ", " ", "c", "o", "n", "s", "t", " ", "f", "i", "l", "t", "e", "r", "e", "d", "U", "s", "e",
      "r", "s", " ", "=", " ", "u", "s", "e", "M", "e", "m", "o", "(", "(", ")", " ", "=", ">", " ",
      "{", "\n", " ", " ", " ", " ", " ", " ", " ", " ", "r", "e", "t", "u", "r", "n", " ", "u", "s",
      "e", "r", "s", ".", "f", "i", "l", "t", "e", "r", "(", "u", "s", "e", "r", " ", "=", ">", " ",
      "\n", " ", " ", " ", " ", " ", " ", " ", " ", " ", " ", " ", " ", "u", "s", "e", "r", ".", "n",
      "a", "m", "e", ".", "t", "o", "L", "o", "w", "e", "r", "C", "a", "s", "e", "(", ")", ".", "i",
      "n", "c", "l", "u", "d", "e", "s", "(", "f", "i", "l", "t", "e", "r", ".", "t", "o", "L", "o",
      "w", "e", "r", "C", "a", "s", "e", "(", ")", ")", "\n", " ", " ", " ", " ", " ", " ", " ", " ",
      ")", ";", "\n", " ", " ", " ", " ", "}", ",", " ", "[", "u", "s", "e", "r", "s", ",", " ", "f",
      "i", "l", "t", "e", "r", "]", ")", ";", "\n", " ", " ", " ", " ", "\n", " ", " ", " ", " ",
      "/", "/", " ", "M", "e", "m", "o", "i", "z", "e", " ", "c", "a", "l", "l", "b", "a", "c", "k",
      " ", "f", "u", "n", "c", "t", "i", "o", "n", "s", "\n", " ", " ", " ", " ", "c", "o", "n", "s",
      "t", " ", "h", "a", "n", "d", "l", "e", "U", "s", "e", "r", "C", "l", "i", "c", "k", " ", "=",
      " ", "u", "s", "e", "C", "a", "l", "l", "b", "a", "c", "k", "(", "(", "u", "s", "e", "r", ")",
      " ", "=", ">", " ", "{", "\n", " ", " ", " ", " ", " ", " ", " ", " ", "o", "n", "U", "s", "e",
      "r", "S", "e", "l", "e", "c", "t", "(", "u", "s", "e", "r", ")", ";", "\n", " ", " ", " ", " ",
      "}", ",", " ", "[", "o", "n", "U", "s", "e", "r", "S", "e", "l", "e", "c", "t", "]", ")", ";",
      "\n", " ", " ", " ", " ", "\n", " ", " ", " ", " ", "u", "s", "e", "E", "f", "f", "e", "c",
      "t", "(", "(", ")", " ", "=", ">", " ", "{", "\n", " ", " ", " ", " ", " ", " ", " ", " ", "/",
      "/", " ", "S", "i", "d", "e", " ", "e", "f", "f", "e", "c", "t", "s", " ", "h", "e", "r", "e",
      "\n", " ", " ", " ", " ", " ", " ", " ", " ", "s", "e", "t", "L", "o", "a", "d", "i", "n", "g",
      "(", "t", "r", "u", "e", ")", ";", "\n", " ", " ", " ", " ", " ", " ", " ", " ", "/", "/", " ",
      "C", "l", "e", "a", "n", "u", "p", " ", "f", "u", "n", "c", "t", "i", "o", "n", "\n", " ", " ",
      " ", " ", " ", " ", " ", " ", "r", "e", "t", "u", "r", "n", " ", "(", ")", " ", "=", ">", " ",
      "{", "\n", " ", " ", " ", " ", " ", " ", " ", " ", " ", " ", " ", " ", "s", "e", "t", "L", "o",
      "a", "d", "i", "n", "g", "(", "f", "a", "l", "s", "e", ")", ";", "\n", " ", " ", " ", " ", " ",
      " ", " ", " ", "}", ";", "\n", " ", " ", " ", " ", "}", ",", " ", "[", "]", ")", ";", "\n",
      " ", " ", " ", " ", "\n", " ", " ", " ", " ", "r", "e", "t", "u", "r", "n", " ", "(", "\n",
      " ", " ", " ", " ", " ", " ", " ", " ", "<", "d", "i", "v", ">", "\n", " ", " ", " ", " ", " ",
      " ", " ", " ", " ", " ", " ", " ", "<", "i", "n", "p", "u", "t", " ", "\n", " ", " ", " ", " ",
      " ", " ", " ", " ", " ", " ", " ", " ", " ", " ", " ", " ", "v", "a", "l", "u", "e", "=", "{",
      "f", "i", "l", "t", "e", "r", "}", " ", "\n", " ", " ", " ", " ", " ", " ", " ", " ", " ", " ",
      " ", " ", " ", " ", " ", " ", "o", "n", "C", "h", "a", "n", "g", "e", "=", "{", "(", "e", ")",
      " ", "=", ">", " ", "s", "e", "t", "F", "i", "l", "t", "e", "r", "(", "e", ".", "t", "a", "r",
      "g", "e", "t", ".", "v", "a", "l", "u", "e", ")", "}", " ", "\n", " ", " ", " ", " ", " ", " ",
      " ", " ", " ", " ", " ", " ", "/", ">", "\n", " ", " ", " ", " ", " ", " ", " ", " ", " ", " ",
      " ", " ", "{", "f", "i", "l", "t", "e", "r", "e", "d", "U", "s", "e", "r", "s", ".", "m", "a",
      "p", "(", "u", "s", "e", "r", " ", "=", ">", " ", "(", "\n", " ", " ", " ", " ", " ", " ", " ",
      " ", " ", " ", " ", " ", " ", " ", " ", " ", "<", "U", "s", "e", "r", "C", "a", "r", "d", " ",
      "\n", " ", " ", " ", " ", " ", " ", " ", " ", " ", " ", " ", " ", " ", " ", " ", " ", " ", " ",
      " ", " ", "k", "e", "y", "=", "{", "u", "s", "e", "r", ".", "i", "d", "}", " ", "\n", " ", " ",
      " ", " ", " ", " ", " ", " ", " ", " ", " ", " ", " ", " ", " ", " ", " ", " ", " ", " ", "u",
      "s", "e", "r", "=", "{", "u", "s", "e", "r", "}", " ", "\n", " ", " ", " ", " ", " ", " ", " ",
      " ", " ", " ", " ", " ", " ", " ", " ", " ", " ", " ", " ", " ", "o", "n", "C", "l", "i", "c",
      "k", "=", "{", "h", "a", "n", "d", "l", "e", "U", "s", "e", "r", "C", "l", "i", "c", "k", "}",
      "\n", " ", " ", " ", " ", " ", " ", " ", " ", " ", " ", " ", " ", " ", " ", " ", " ", "/", ">",
      "\n", " ", " ", " ", " ", " ", " ", " ", " ", " ", " ", " ", " ", ")", ")", "}", "\n", " ",
      " ", " ", " ", " ", " ", " ", " ", "<", "/", "d", "i", "v", ">", "\n", " ", " ", " ", " ", ")",
      ";", "\n", "}", ";", "\n", "U+0060", "U+0060", "U+0060", "\n", "\n", "#", "#", " ", "C", "u",
      "s", "t", "o", "m", " ", "H", "o", "o", "k", "s", "\n", "-", " ", "E", "x", "t", "r", "a", "c",
      "t", " ", "r", "e", "u", "s", "a", "b", "l", "e", " ", "l", "o", "g", "i", "c", " ", "i", "n",
      "t", "o", " ", "c", "u", "s", "t", "o", "m", " ", "h", "o", "o", "k", "s", "\n", "-", " ", "S",
      "t", "a", "r", "t", " ", "c", "u", "s", "t", "o", "m", " ", "h", "o", "o", "k", " ", "n", "a",
      "m", "e", "s", " ", "w", "i", "t", "h", " ", "'", "u", "s", "e", "'", "\n", "-", " ", "R", "e",
      "t", "u", "r", "n", " ", "o", "b", "j", "e", "c", "t", "s", " ", "f", "o", "r", " ", "m", "u",
      "l", "t", "i", "p", "l", "e", " ", "v", "a", "l", "u", "e", "s", "\n">>

\* Programming languages with their topics and content
LANGUAGE_CONTENT ==
    (golang :> [topics |-> <<code_styling, error_handling, testing, concurrency, performance>>,
        content |-> (code_styling :> content_golang_code_styling) @@ (error_handling :> content_golang_error_handling) @@ (testing :> content_golang_testing) @@ (concurrency :> content_golang_concurrency) @@ (performance :> content_golang_performance)]) @@
    (python :> [topics |-> <<code_styling, testing, packaging, performance, async>>,
        content |-> (code_styling :> content_python_code_styling) @@ (testing :> content_python_testing) @@ (packaging :> content_python_packaging) @@ (performance :> content_python_performance) @@ (async :> content_python_async)]) @@
    (javascript :> [topics |-> <<code_styling, testing, async, modules, performance>>,
        content |-> (code_styling :> content_javascript_code_styling) @@ (testing :> content_javascript_testing)]) @@
    (react :> [topics |-> <<components, hooks, state_management, performance, testing>>,
        content |-> (components :> content_react_components) @@ (hooks :> content_react_hooks)])

\* list(LANGUAGE_CONTENT.keys()): the labels in insertion order
LANGUAGE_KEYS ==
    <<golang, python, javascript, react>>

\* literal piece 1 of the fallback f-string
FALLBACK_TEXT_1 ==
    <<"#", " ">>

\* literal piece 2 of the fallback f-string
FALLBACK_TEXT_2 ==
    <<" ">>

\* literal piece 3 of the fallback f-string
FALLBACK_TEXT_3 ==
    <<" ", "G", "u", "i", "d", "e", "l", "i", "n", "e", "s", "\n", "\n", "#", "#", " ", "O", "v",
      "e", "r", "v", "i", "e", "w", "\n", "T", "h", "i", "s", " ", "d", "o", "c", "u", "m", "e", "n",
      "t", " ", "c", "o", "n", "t", "a", "i", "n", "s", " ", "b", "e", "s", "t", " ", "p", "r", "a",
      "c", "t", "i", "c", "e", "s", " ", "a", "n", "d", " ", "g", "u", "i", "d", "e", "l", "i", "n",
      "e", "s", " ", "f", "o", "r", " ">>

\* literal piece 4 of the fallback f-string
FALLBACK_TEXT_4 ==
    <<" ", "i", "n", " ">>

\* literal piece 5 of the fallback f-string
FALLBACK_TEXT_5 ==
    <<".", "\n", "\n", "#", "#", " ", "K", "e", "y", " ", "P", "r", "i", "n", "c", "i", "p", "l",
      "e", "s", "\n", "1", ".", " ", "W", "r", "i", "t", "e", " ", "c", "l", "e", "a", "n", ",", " ",
      "r", "e", "a", "d", "a", "b", "l", "e", " ", "c", "o", "d", "e", "\n", "2", ".", " ", "F", "o",
      "l", "l", "o", "w", " ", "e", "s", "t", "a", "b", "l", "i", "s", "h", "e", "d", " ", "c", "o",
      "n", "v", "e", "n", "t", "i", "o", "n", "s", "\n", "3", ".", " ", "T", "e", "s", "t", " ", "y",
      "o", "u", "r", " ", "c", "o", "d", "e", " ", "t", "h", "o", "r", "o", "u", "g", "h", "l", "y",
      "\n", "4", ".", " ", "D", "o", "c", "u", "m", "e", "n", "t", " ", "i", "m", "p", "o", "r", "t",
      "a", "n", "t", " ", "d", "e", "c", "i", "s", "i", "o", "n", "s", "\n", "5", ".", " ", "K", "e",
      "e", "p", " ", "l", "e", "a", "r", "n", "i", "n", "g", " ", "a", "n", "d", " ", "i", "m", "p",
      "r", "o", "v", "i", "n", "g", "\n", "\n", "#", "#", " ", "B", "e", "s", "t", " ", "P", "r",
      "a", "c", "t", "i", "c", "e", "s", "\n", "-", " ", "F", "o", "l", "l", "o", "w", " ", "t", "h",
      "e", " ", "c", "o", "m", "m", "u", "n", "i", "t", "y", " ", "s", "t", "a", "n", "d", "a", "r",
      "d", "s", " ", "f", "o", "r", " ">>

\* literal piece 6 of the fallback f-string
FALLBACK_TEXT_6 ==
    <<"\n", "-", " ", "U", "s", "e", " ", "a", "p", "p", "r", "o", "p", "r", "i", "a", "t", "e", " ",
      "t", "o", "o", "l", "s", " ", "a", "n", "d", " ", "f", "r", "a", "m", "e", "w", "o", "r", "k",
      "s", "\n", "-", " ", "W", "r", "i", "t", "e", " ", "c", "o", "m", "p", "r", "e", "h", "e", "n",
      "s", "i", "v", "e", " ", "t", "e", "s", "t", "s", "\n", "-", " ", "D", "o", "c", "u", "m", "e",
      "n", "t", " ", "y", "o", "u", "r", " ", "c", "o", "d", "e", " ", "p", "r", "o", "p", "e", "r",
      "l", "y", "\n", "-", " ", "R", "e", "v", "i", "e", "w", " ", "c", "o", "d", "e", " ", "r", "e",
      "g", "u", "l", "a", "r", "l", "y", "\n", "\n", "#", "#", " ", "R", "e", "s", "o", "u", "r",
      "c", "e", "s", "\n", "-", " ", "O", "f", "f", "i", "c", "i", "a", "l", " ">>

\* literal piece 7 of the fallback f-string
FALLBACK_TEXT_7 ==
    <<" ", "d", "o", "c", "u", "m", "e", "n", "t", "a", "t", "i", "o", "n", "\n", "-", " ", "C", "o",
      "m", "m", "u", "n", "i", "t", "y", " ", "s", "t", "y", "l", "e", " ", "g", "u", "i", "d", "e",
      "s", "\n", "-", " ", "P", "o", "p", "u", "l", "a", "r", " ", "f", "r", "a", "m", "e", "w", "o",
      "r", "k", "s", " ", "a", "n", "d", " ", "l", "i", "b", "r", "a", "r", "i", "e", "s", "\n", "-",
      " ", "T", "e", "s", "t", "i", "n", "g", " ", "t", "o", "o", "l", "s", " ", "a", "n", "d", " ",
      "p", "r", "a", "c", "t", "i", "c", "e", "s", "\n", "\n", "#", "#", " ", "C", "o", "m", "m",
      "o", "n", " ", "P", "i", "t", "f", "a", "l", "l", "s", "\n", "-", " ", "N", "o", "t", " ", "f",
      "o", "l", "l", "o", "w", "i", "n", "g", " ", "e", "s", "t", "a", "b", "l", "i", "s", "h", "e",
      "d", " ", "p", "a", "t", "t", "e", "r", "n", "s", "\n", "-", " ", "I", "g", "n", "o", "r", "i",
      "n", "g", " ", "p", "e", "r", "f", "o", "r", "m", "a", "n", "c", "e", " ", "i", "m", "p", "l",
      "i", "c", "a", "t", "i", "o", "n", "s", "\n", "-", " ", "I", "n", "s", "u", "f", "f", "i", "c",
      "i", "e", "n", "t", " ", "t", "e", "s", "t", "i", "n", "g", "\n", "-", " ", "P", "o", "o", "r",
      " ", "e", "r", "r", "o", "r", " ", "h", "a", "n", "d", "l", "i", "n", "g", "\n", "-", " ", "L",
      "a", "c", "k", " ", "o", "f", " ", "d", "o", "c", "u", "m", "e", "n", "t", "a", "t", "i", "o",
      "n", "\n", "\n", "-", "-", "-", "\n", "*", "T", "h", "i", "s", " ", "i", "s", " ", "a", " ",
      "t", "e", "m", "p", "l", "a", "t", "e", " ", "d", "o", "c", "u", "m", "e", "n", "t", ".", " ",
      "P", "l", "e", "a", "s", "e", " ", "c", "u", "s", "t", "o", "m", "i", "z", "e", " ", "w", "i",
      "t", "h", " ", "s", "p", "e", "c", "i", "f", "i", "c", " ">>

\* literal piece 8 of the fallback f-string
FALLBACK_TEXT_8 ==
    <<" ">>

\* literal piece 9 of the fallback f-string
FALLBACK_TEXT_9 ==
    <<" ", "g", "u", "i", "d", "e", "l", "i", "n", "e", "s", ".", "*", "\n">>

\* the directory name "eyes"
eyes ==
    <<"e", "y", "e", "s">>

\* the directory name "fleet"
fleet ==
    <<"f", "l", "e", "e", "t">>

\* the directory name "flex"
flex ==
    <<"f", "l", "e", "x">>

\* the directory name "ido"
ido ==
    <<"i", "d", "o">>

\* the directory name "mind"
mind ==
    <<"m", "i", "n", "d">>

\* The target directories, in listed order
directories ==
    <<eyes, fleet, flex, ido, mind>>

-----------------------------------------------------------------------------
(* str methods used by the script, for ASCII text *)

\* the ASCII lower-case letters, in alphabetical order
ascii_lowercase ==
    <<"a", "b", "c", "d", "e", "f", "g", "h", "i", "j", "k", "l", "m",
      "n", "o", "p", "q", "r", "s", "t", "u", "v", "w", "x", "y", "z">>

\* the ASCII upper-case letters, in alphabetical order
ascii_uppercase ==
    <<"A", "B", "C", "D", "E", "F", "G", "H", "I", "J", "K", "L", "M",
      "N", "O", "P", "Q", "R", "S", "T", "U", "V", "W", "X", "Y", "Z">>

\* the first position of c in the sequence s at or after position i, 0 when
\* there is none
RECURSIVE Find(_, _, _)
Find(c, s, i) ==
    IF i > Len(s) THEN 0
    ELSE IF s[i] = c THEN i
    ELSE Find(c, s, i + 1)

\* the first position of c in the sequence s, 0 when absent
IndexOf(c, s) == Find(c, s, 1)

\* the upper-case form of each lower-case letter
UpperOf ==
    [c \in {ascii_lowercase[i] : i \in 1..Len(ascii_lowercase)} |->
        ascii_uppercase[IndexOf(c, ascii_lowercase)]]

\* the lower-case form of each upper-case letter
LowerOf ==
    [c \in {ascii_uppercase[i] : i \in 1..Len(ascii_uppercase)} |->
        ascii_lowercase[IndexOf(c, ascii_uppercase)]]

\* a character that has an upper and a lower case form
IsCased(c) == c \in DOMAIN UpperOf \/ c \in DOMAIN LowerOf

\* the upper-case form of one character
ToUpper(c) == IF c \in DOMAIN UpperOf THEN UpperOf[c] ELSE c

\* the lower-case form of one character
ToLower(c) == IF c \in DOMAIN LowerOf THEN LowerOf[c] ELSE c

\* str.title(): a character that follows a cased character is lower-cased,
\* any other character is upper-cased
title(s) ==
    [i \in 1..Len(s) |->
        IF i > 1 /\ IsCased(s[i - 1]) THEN ToLower(s[i]) ELSE ToUpper(s[i])]

\* str.replace(old, new) for one-character old and new
replace(s, old, new) ==
    [i \in 1..Len(s) |-> IF s[i] = old THEN new ELSE s[i]]

\* str.split(sep) for a one-character separator: the pieces between the
\* separators, empty pieces included
RECURSIVE split(_, _)
split(s, sep) ==
    LET i == IndexOf(sep, s)
    IN IF i = 0
       THEN <<s>>
       ELSE <<SubSeq(s, 1, i - 1)>> \o split(SubSeq(s, i + 1, Len(s)), sep)

\* needle in hay: needle occurs in hay as a run of consecutive characters
Contains(hay, needle) ==
    \E i \in 1..(Len(hay) - Len(needle) + 1) :
        SubSeq(hay, i, i + Len(needle) - 1) = needle

-----------------------------------------------------------------------------
(* The content catalog *)

\* get_content_for_topic without the catalog lookup: always the fallback document
get_content_for_topic_no_lookup(language, topic) ==
    FALLBACK_TEXT_1 \o title(language)
      \o FALLBACK_TEXT_2 \o title(replace(topic, "-", " "))
      \o FALLBACK_TEXT_3 \o replace(topic, "-", " ")
      \o FALLBACK_TEXT_4 \o title(language)
      \o FALLBACK_TEXT_5 \o language
      \o FALLBACK_TEXT_6 \o language
      \o FALLBACK_TEXT_7 \o language
      \o FALLBACK_TEXT_8 \o topic
      \o FALLBACK_TEXT_9

\* get_content_for_topic with the heading built from the topic as given,
\* neither spaced nor title-cased
get_content_for_topic_raw_heading(language, topic) ==
    IF language \in DOMAIN LANGUAGE_CONTENT
       /\ topic \in DOMAIN LANGUAGE_CONTENT[language].content
    THEN LANGUAGE_CONTENT[language].content[topic]
    ELSE FALLBACK_TEXT_1 \o title(language)
      \o FALLBACK_TEXT_2 \o topic
      \o FALLBACK_TEXT_3 \o replace(topic, "-", " ")
      \o FALLBACK_TEXT_4 \o title(language)
      \o FALLBACK_TEXT_5 \o language
      \o FALLBACK_TEXT_6 \o language
      \o FALLBACK_TEXT_7 \o language
      \o FALLBACK_TEXT_8 \o topic
      \o FALLBACK_TEXT_9

\* get_content_for_topic(language, topic): the catalogued body when there is
\* one, the formatted fallback document otherwise
get_content_for_topic(language, topic) ==
    IF language \in DOMAIN LANGUAGE_CONTENT
       /\ topic \in DOMAIN LANGUAGE_CONTENT[language].content
    THEN LANGUAGE_CONTENT[language].content[topic]
    ELSE FALLBACK_TEXT_1 \o title(language)
      \o FALLBACK_TEXT_2 \o title(replace(topic, "-", " "))
      \o FALLBACK_TEXT_3 \o replace(topic, "-", " ")
      \o FALLBACK_TEXT_4 \o title(language)
      \o FALLBACK_TEXT_5 \o language
      \o FALLBACK_TEXT_6 \o language
      \o FALLBACK_TEXT_7 \o language
      \o FALLBACK_TEXT_8 \o topic
      \o FALLBACK_TEXT_9

\* the filename with the name, the language and the topic joined by "-"
Filename_hyphens(developer, language, topic) ==
    developer \o <<"-">> \o language \o <<"-">> \o topic \o <<".", "m", "d">>

\* the filename f"{developer}.{language}.{topic}.md"
Filename(developer, language, topic) ==
    developer \o <<".">> \o language \o <<".">> \o topic \o <<".", "m", "d">>

-----------------------------------------------------------------------------
(* Bounds of the exploration *)

\* the developer pool is the first PoolSize names of DEVELOPERS
PoolSize == 3

\* the run is followed over the first directories of the list
ExploredDirectories == SubSeq(directories, 1, 2)

\* random.choice draws are explored over these languages and topics only
ExploredLanguages == {golang, javascript}
ExploredTopics == {concurrency, modules}

\* what a directory that exists before the run may hold: a file with the name
\* of a file the run can generate, and a file the run never generates
OLD_TEXT == <<"o", "l", "d">>
NOTES == <<"N", "O", "T", "E", "S", ".", "m", "d">>

-----------------------------------------------------------------------------
(* Helpers *)

Range(s) == {s[i] : i \in 1..Len(s)}

Min(a, b) == IF a < b THEN a ELSE b

\* the developer pool of the run
Pool == SubSeq(DEVELOPERS, 1, Min(PoolSize, Len(DEVELOPERS)))

\* random.randint(3, 6): the bounds of the file count
MIN_FILES == 3
MAX_FILES == 6

\* random.randint(a, b): any integer of the inclusive range
randint(a, b) == a..b

\* a sample drawn with replacement: the elements may repeat
sample_with_replacement(population, k) == [1..k -> Range(population)]

\* random.sample(population, k): any sequence of k distinct elements
sample(population, k) ==
    {s \in [1..k -> Range(population)] :
        \A i, j \in 1..k : i # j => s[i] # s[j]}

\* random.choice(seq), over the explored values
choice(seq, explored) == Range(seq) \cap explored

\* the topics of the first language, whatever the language drawn
available_topics_first_language(language) ==
    LANGUAGE_CONTENT[LANGUAGE_KEYS[1]].topics

\* LANGUAGE_CONTENT[language]["topics"]
available_topics(language) == LANGUAGE_CONTENT[language].topics

\* a directory listing with one more file, or one file replaced
\* (open(filepath, 'w') creates or truncates, write stores the text)
WriteText(listing, filename, text) ==
    [f \in DOMAIN listing \cup {filename} |->
        IF f = filename THEN text ELSE listing[f]]

\* the empty directory listing
NoFiles == [f \in {} |-> << >>]

\* the listing of a directory populated before the run
OldFiles ==
    WriteText(WriteText(NoFiles, NOTES, OLD_TEXT),
              Filename(Pool[1], golang, concurrency), OLD_TEXT)

Dirs == Range(ExploredDirectories)

\* the position of a directory in the list
DirIndexOf(dn) == IndexOf(dn, ExploredDirectories)

-----------------------------------------------------------------------------------------------------------------------------------------------------
(* The state *)

VARIABLES
    pc,                  \* where the run is: "main", "create", "loop", "done", "error"
    dirIndex,            \* position of main's loop in the directory list
    exists,              \* the filesystem: whether each directory path exists
    files,               \* the filesystem: each directory's listing, name -> text
    selected_developers, \* create_files_for_directory: the sampled developers
    files_created,       \* create_files_for_directory: the filenames written
    total_files,         \* main: the running total
    exists0,             \* history: exists before the run
    files0,              \* history: files before the run
    opened,              \* history: the paths <<directory, filename>> opened for writing
    written,             \* history: path of each completed write -> the values sampled for it
    nwrites,             \* history: the number of completed writes
    failed,              \* history: a filesystem call has raised
    call                 \* the last catalog call made on its own, with its result

vars == <<pc, dirIndex, exists, files, selected_developers, files_created,
          total_files, exists0, files0, opened, written, nwrites, failed, call>>

popVars == <<pc, dirIndex, exists, files, selected_developers, files_created,
             total_files, exists0, files0, opened, written, nwrites, failed>>

NoCall == [op |-> "none"]

\* the directory main's loop is at
directory == ExploredDirectories[dirIndex]

\* the state at the start of main: a first run (no directory exists) or a
\* re-run (every directory exists and was populated before)
Init ==
    /\ pc = "main"
    /\ dirIndex = 1
    /\ \E rerun \in BOOLEAN :
          /\ exists = [dn \in Dirs |-> rerun]
          /\ files = [dn \in Dirs |-> IF rerun THEN OldFiles ELSE NoFiles]
    /\ selected_developers = << >>
    /\ files_created = << >>
    /\ total_files = 0
    /\ exists0 = exists
    /\ files0 = files
    /\ opened = {}
    /\ written = NoFiles
    /\ nwrites = 0
    /\ failed = FALSE
    /\ call = NoCall

\* the exception is caught in main's loop, which goes on with the next directory
Raise_and_continue ==
    /\ pc' = "main"
    /\ dirIndex' = dirIndex + 1
    /\ selected_developers' = << >>
    /\ files_created' = << >>
    /\ UNCHANGED total_files

\* the exception leaves main, nothing catches it: the frames are gone
Raise ==
    /\ pc' = "error"
    /\ selected_developers' = << >>
    /\ files_created' = << >>
    /\ UNCHANGED <<dirIndex, total_files>>

\* the directory is removed and created again when the path exists
EnsureDirectory_recreate ==
    /\ pc = "main"
    /\ dirIndex <= Len(ExploredDirectories)
    /\ exists' = [exists EXCEPT ![directory] = TRUE]
    /\ files' = [files EXCEPT ![directory] = NoFiles]
    /\ pc' = "create"
    /\ UNCHANGED <<dirIndex, selected_developers, files_created, total_files,
                   exists0, files0, opened, written, nwrites, failed, call>>

\* the directory is never created
EnsureDirectory_no_mkdir ==
    /\ pc = "main"
    /\ dirIndex <= Len(ExploredDirectories)
    /\ pc' = "create"
    /\ UNCHANGED <<dirIndex, exists, files, selected_developers, files_created,
                   total_files, exists0, files0, opened, written, nwrites,
                   failed, call>>

\* main, one iteration up to the call: create the directory when the path
\* does not exist
EnsureDirectory ==
    /\ pc = "main"
    /\ dirIndex <= Len(ExploredDirectories)
    /\ IF ~exists[directory]
       THEN exists' = [exists EXCEPT ![directory] = TRUE]
       ELSE exists' = exists
    /\ pc' = "create"
    /\ UNCHANGED <<dirIndex, files, selected_developers, files_created,
                   total_files, exists0, files0, opened, written, nwrites,
                   failed, call>>

\* main: mkdir raises (permissions, invalid path)
MkdirFails ==
    /\ pc = "main"
    /\ dirIndex <= Len(ExploredDirectories)
    /\ ~exists[directory]
    /\ failed' = TRUE
    /\ Raise
    /\ UNCHANGED <<exists, files, exists0, files0, opened, written, nwrites, call>>

\* create_files_for_directory, up to the loop: draw the count and the developers
SelectDevelopers ==
    /\ pc = "create"
    /\ \E num_files \in randint(MIN_FILES, MAX_FILES) :
          selected_developers' \in sample(Pool, Min(num_files, Len(Pool)))
    /\ files_created' = << >>
    /\ pc' = "loop"
    /\ UNCHANGED <<dirIndex, exists, files, total_files, exists0, files0,
                   opened, written, nwrites, failed, call>>

\* the developers taken from the end of the sample
developer_from_end == selected_developers[Len(selected_developers) - Len(files_created)]

\* the developer of the loop's next iteration
developer == selected_developers[Len(files_created) + 1]

\* create_files_for_directory, one iteration of the loop
WriteFile ==
    /\ pc = "loop"
    /\ Len(files_created) < Len(selected_developers)
    /\ exists[directory]
    /\ \E language \in choice(LANGUAGE_KEYS, ExploredLanguages) :
       \E topic \in choice(available_topics(language), ExploredTopics) :
          LET filename == Filename(developer, language, topic)
              content == get_content_for_topic(language, topic)
              filepath == <<directory, filename>>
          IN /\ files' = [files EXCEPT ![directory] = WriteText(@, filename, content)]
             /\ files_created' = Append(files_created, filename)
             /\ opened' = opened \cup {filepath}
             /\ written' = [p \in DOMAIN written \cup {filepath} |->
                              IF p = filepath
                              THEN [developer |-> developer,
                                    language |-> language,
                                    topic |-> topic]
                              ELSE written[p]]
    /\ nwrites' = nwrites + 1
    /\ UNCHANGED <<pc, dirIndex, exists, selected_developers, total_files,
                   exists0, files0, failed, call>>

\* one iteration of the loop in which open raises: nothing is written
OpenFails ==
    /\ pc = "loop"
    /\ Len(files_created) < Len(selected_developers)
    /\ failed' = TRUE
    /\ Raise
    /\ UNCHANGED <<exists, files, exists0, files0, opened, written, nwrites, call>>

\* one iteration of the loop in which the write raises after open created or
\* truncated the file (disk full): the file is left empty
WriteFails ==
    /\ pc = "loop"
    /\ Len(files_created) < Len(selected_developers)
    /\ exists[directory]
    /\ \E language \in choice(LANGUAGE_KEYS, ExploredLanguages) :
       \E topic \in choice(available_topics(language), ExploredTopics) :
          LET filename == Filename(developer, language, topic)
          IN /\ files' = [files EXCEPT ![directory] = WriteText(@, filename, << >>)]
             /\ opened' = opened \cup {<<directory, filename>>}
    /\ failed' = TRUE
    /\ Raise
    /\ UNCHANGED <<exists, exists0, files0, written, nwrites, call>>

\* main assigns the length to the total instead of adding it
ReturnFiles_assigns_total ==
    /\ pc = "loop"
    /\ Len(files_created) = Len(selected_developers)
    /\ total_files' = Len(files_created)
    /\ dirIndex' = dirIndex + 1
    /\ pc' = "main"
    /\ selected_developers' = << >>
    /\ files_created' = << >>
    /\ UNCHANGED <<exists, files, exists0, files0, opened, written, nwrites,
                   failed, call>>

\* create_files_for_directory returns files_created; main adds its length to
\* the total and moves to the next directory (the returned list is not used
\* again: the locals are dropped)
ReturnFiles ==
    /\ pc = "loop"
    /\ Len(files_created) = Len(selected_developers)
    /\ total_files' = total_files + Len(files_created)
    /\ dirIndex' = dirIndex + 1
    /\ pc' = "main"
    /\ selected_developers' = << >>
    /\ files_created' = << >>
    /\ UNCHANGED <<exists, files, exists0, files0, opened, written, nwrites,
                   failed, call>>

\* main after the loop: the success summary reports total_files
Finish ==
    /\ pc = "main"
    /\ dirIndex > Len(ExploredDirectories)
    /\ pc' = "done"
    /\ UNCHANGED <<dirIndex, exists, files, selected_developers, files_created,
                   total_files, exists0, files0, opened, written, nwrites,
                   failed, call>>

Next ==
    \/ EnsureDirectory
    \/ MkdirFails
    \/ SelectDevelopers
    \/ WriteFile
    \/ OpenFails
    \/ WriteFails
    \/ ReturnFiles
    \/ Finish

Spec == Init /\ [][Next]_vars

-----------------------------------------------------------------------------
(* The catalog and the naming convention on their own: calls with arguments
   drawn from the whole catalog, and from labels outside it *)

\* labels and topics no catalog entry has
rust == <<"r", "u", "s", "t">>
c_plus_plus == <<"c", "+", "+">>
nonexistent_topic ==
    <<"n", "o", "n", "e", "x", "i", "s", "t", "e", "n", "t", "-", "t", "o", "p", "i", "c">>
es6_modules == <<"e", "s", "6", "-", "m", "o", "d", "u", "l", "e", "s">>

\* every topic some language declares
DeclaredTopics ==
    UNION {Range(available_topics(language)) : language \in DOMAIN LANGUAGE_CONTENT}

QueryLanguages == DOMAIN LANGUAGE_CONTENT \cup {rust, c_plus_plus}
QueryTopics == DeclaredTopics \cup {nonexistent_topic, es6_modules}

InitCatalog ==
    /\ pc = "main"
    /\ dirIndex = 1
    /\ exists = [dn \in Dirs |-> FALSE]
    /\ files = [dn \in Dirs |-> NoFiles]
    /\ selected_developers = << >>
    /\ files_created = << >>
    /\ total_files = 0
    /\ exists0 = exists
    /\ files0 = files
    /\ opened = {}
    /\ written = NoFiles
    /\ nwrites = 0
    /\ failed = FALSE
    /\ call = NoCall

\* a call of get_content_for_topic
CallGetContent ==
    /\ \E language \in QueryLanguages, topic \in QueryTopics :
          call' = [op |-> "get_content_for_topic",
                   language |-> language,
                   topic |-> topic,
                   result |-> get_content_for_topic(language, topic)]
    /\ UNCHANGED popVars

\* the body of the populator's loop up to the write, for any developer of
\* the list: draw the language and the topic, build the filename
CallFilename ==
    /\ \E dev \in Range(DEVELOPERS) :
       \E language \in Range(LANGUAGE_KEYS) :
       \E topic \in Range(available_topics(language)) :
          call' = [op |-> "filename",
                   developer |-> dev,
                   language |-> language,
                   topic |-> topic,
                   filename |-> Filename(dev, language, topic)]
    /\ UNCHANGED popVars

NextCatalog ==
    \/ CallGetContent
    \/ CallFilename

SpecCatalog == InitCatalog /\ [][NextCatalog]_vars

-----------------------------------------------------------------------------
(* Vocabulary of the properties *)

\* the components of a filename
Parts(filename) == split(filename, ".")

MD == <<"m", "d">>

\* the note that ends the fallback document
TEMPLATE_MARKER ==
    <<"t", "e", "m", "p", "l", "a", "t", "e", " ", "d", "o", "c", "u", "m", "e", "n", "t">>

Catalogued(language, topic) ==
    /\ language \in DOMAIN LANGUAGE_CONTENT
    /\ topic \in DOMAIN LANGUAGE_CONTENT[language].content

\* the paths of the completed writes into one directory
WrittenIn(dn) == {p \in DOMAIN written : p[1] = dn}

\* the inclusive range of the file count, clamped to the pool
LowCount == Min(MIN_FILES, Len(Pool))
HighCount == Min(MAX_FILES, Len(Pool))

-----------------------------------------------------------------------------
(* The properties *)

C2Theorem ==
    call.op = "filename" =>
        Parts(call.filename) = <<call.developer, call.language, call.topic, MD>>

C2Witness ==
    /\ call.op = "filename"
    /\ call.developer = emmaWhite
    /\ call.language = react
    /\ call.topic = state_management
    /\ Len(Parts(call.filename)) = 4

\* C3: for a catalogued (language, topic), get_content_for_topic returns the
\* body the catalog stores for the pair, and the body does not contain the
\* "template document" note.
C3Theorem ==
    (call.op = "get_content_for_topic" /\ Catalogued(call.language, call.topic)) =>
        /\ call.result = LANGUAGE_CONTENT[call.language].content[call.topic]
        /\ ~Contains(call.result, TEMPLATE_MARKER)

C3Witness ==
    /\ call.op = "get_content_for_topic"
    /\ call.language = react
    /\ call.topic = hooks
    /\ call.result = content_react_hooks

\* C4: for a (language, topic) that is not catalogued (a declared topic with
\* no body, an undeclared topic, a label outside the catalog) the call returns
\* a text that contains the language name, the topic with "-" replaced by a
\* space and title-cased, and the "template document" note; for
\* ("golang", "nonexistent-topic") the text contains "Golang" and
\* "Nonexistent Topic".
C4Theorem ==
    (call.op = "get_content_for_topic" /\ ~Catalogued(call.language, call.topic)) =>
        /\ Contains(call.result, call.language)
        /\ Contains(call.result, title(replace(call.topic, "-", " ")))
        /\ Contains(call.result, TEMPLATE_MARKER)
        /\ (call.language = golang /\ call.topic = nonexistent_topic) =>
              /\ Contains(call.result, <<"G", "o", "l", "a", "n", "g">>)
              /\ Contains(call.result,
                          <<"N", "o", "n", "e", "x", "i", "s", "t", "e", "n", "t",
                            " ", "T", "o", "p", "i", "c">>)

C4Witness ==
    /\ call.op = "get_content_for_topic"
    /\ call.language = golang
    /\ call.topic = nonexistent_topic
    /\ Contains(call.result, TEMPLATE_MARKER)

\* a file of before the run whose path was not opened is unchanged
C5Kept ==
    \A dn \in Dirs : \A f \in DOMAIN files0[dn] :
        <<dn, f>> \notin opened =>
            /\ f \in DOMAIN files[dn]
            /\ files[dn][f] = files0[dn][f]

\* a path that was written holds the text of the values sampled for it
C5Stored ==
    \A p \in DOMAIN written :
        /\ p[2] \in DOMAIN files[p[1]]
        /\ files[p[1]][p[2]] =
              get_content_for_topic(written[p].language, written[p].topic)

\* a step from main's loop at a directory that exists
C5Ensure ==
    (pc = "main" /\ dirIndex <= Len(ExploredDirectories) /\ exists[directory]) =>
        (pc' = "create" /\ files' = files /\ exists' = exists)

\* C5: on a re-run, the step that ensures a directory that already exists
\* neither fails nor changes a listing; a file that was there before the run
\* and whose path the run did not open is still there with its text; and a
\* path the run wrote holds the text of that write.
C5Theorem == [](C5Kept /\ C5Stored) /\ [][C5Ensure]_vars

C5Witness ==
    /\ pc = "done"
    /\ files0[eyes] = OldFiles
    /\ <<eyes, Filename(Pool[1], golang, concurrency)>> \in DOMAIN written
    /\ files[eyes][NOTES] = OLD_TEXT
    /\ files[eyes][Filename(Pool[1], golang, concurrency)] # OLD_TEXT

\* after a failure the run is over and the later directories are as before the run
C6Halted ==
    failed =>
        /\ pc = "error"
        /\ \A j \in (dirIndex + 1)..Len(ExploredDirectories) :
              LET dn == ExploredDirectories[j]
              IN /\ exists[dn] = exists0[dn]
                 /\ files[dn] = files0[dn]
                 /\ \A p \in opened : p[1] # dn

\* after a failure nothing changes
C6Frozen ==
    failed => UNCHANGED <<pc, exists, files, opened, written, total_files>>

\* C6: once a filesystem call has raised, the run has halted: the filesystem
\* does not change any more, no later directory of the list has been created
\* or written into, and the success summary is never reached.
C6Theorem == []C6Halted /\ [][C6Frozen]_vars

C6Witness ==
    /\ failed
    /\ pc = "error"
    /\ dirIndex = 1
    /\ Cardinality(WrittenIn(eyes)) = 2
    /\ ~exists[fleet]

\* the order of the writes and of the directories, step by step
C7Step ==
    /\ written' # written =>
          \E p \in DOMAIN written' \ DOMAIN written :
             /\ DOMAIN written' = DOMAIN written \cup {p}
             /\ p[1] = ExploredDirectories[dirIndex]
             /\ written'[p].developer = selected_developers[Len(files_created) + 1]
             /\ files_created' = Append(files_created, p[2])
             /\ \A q \in DOMAIN written : DirIndexOf(q[1]) <= dirIndex
    /\ dirIndex' # dirIndex =>
          /\ dirIndex' = dirIndex + 1
          /\ Len(files_created) = Len(selected_developers)
          /\ \A i \in 1..Len(files_created) :
                /\ <<ExploredDirectories[dirIndex], files_created[i]>> \in DOMAIN written
                /\ written[<<ExploredDirectories[dirIndex], files_created[i]>>].developer
                      = selected_developers[i]

\* C7: every write goes into the directory main's loop is at, one file per
\* step, for the next developer in sampled order; no earlier write went into
\* a later directory; and the loop moves on, by one position, only when every
\* sampled developer's file has been written, in sampled order.
C7Theorem == [][C7Step]_vars

C7Witness ==
    /\ pc = "loop"
    /\ dirIndex = 2
    /\ Len(files_created) = 2
    /\ Cardinality(WrittenIn(eyes)) = MIN_FILES

\* the directory being populated exists
C8Exists ==
    /\ pc \in {"create", "loop"} => exists[directory]
    /\ \A p \in opened : exists[p[1]]

\* ensuring a directory that exists does not raise
C8Ensure ==
    (pc = "main" /\ dirIndex <= Len(ExploredDirectories) /\ exists[directory]) =>
        (pc' # "error" /\ ~failed')

\* C8: while a directory is being populated it exists (it was created when it
\* was absent), so every path opened for writing lies in an existing
\* directory; and ensuring a directory that is already present does not fail.
C8Theorem == []C8Exists /\ [][C8Ensure]_vars

C8Witness ==
    /\ pc = "loop"
    /\ ~exists0[directory]
    /\ exists[directory]
    /\ Len(files_created) >= 1

\* C9: for every file written, the language component of the name is a label
\* of the catalog, the topic component is a topic declared for that language,
\* both are the values sampled for the file, and the text stored is
\* get_content_for_topic of that language and topic.
C9Theorem ==
    \A p \in DOMAIN written :
        LET parts == Parts(p[2])
        IN /\ Len(parts) = 4
           /\ parts[2] \in DOMAIN LANGUAGE_CONTENT
           /\ parts[3] \in Range(LANGUAGE_CONTENT[parts[2]].topics)
           /\ parts[2] = written[p].language
           /\ parts[3] = written[p].topic
           /\ files[p[1]][p[2]] = get_content_for_topic(parts[2], parts[3])

C9Witness ==
    /\ pc = "done"
    /\ \E p \in DOMAIN written :
          /\ written[p].language = javascript
          /\ written[p].topic = modules
          /\ Contains(files[p[1]][p[2]], TEMPLATE_MARKER)
    /\ \E p \in DOMAIN written :
          /\ written[p].language = golang
          /\ files[p[1]][p[2]] = content_golang_concurrency

\* the list returned for a directory, at the step that returns it
C10Returned ==
    dirIndex' # dirIndex =>
        /\ Range(files_created) = {p[2] : p \in WrittenIn(ExploredDirectories[dirIndex])}
        /\ Len(files_created) = Cardinality(WrittenIn(ExploredDirectories[dirIndex]))

\* the counts of the run
C10Counted ==
    /\ nwrites = Cardinality(DOMAIN written)
    /\ pc = "done" =>
          /\ total_files = Cardinality(DOMAIN written)
          /\ total_files >= Len(ExploredDirectories) * LowCount
          /\ total_files <= Len(ExploredDirectories) * HighCount

\* C10: the list a directory's call returns holds exactly the filenames
\* written into the directory, no path is written twice, and in a run that
\* completes the total reported is the number of distinct paths written,
\* between LowCount and HighCount per directory.
C10Theorem == []C10Counted /\ [][C10Returned]_vars

C10Witness ==
    /\ pc = "done"
    /\ ~failed
    /\ total_files = Len(ExploredDirectories) * MIN_FILES
    /\ Cardinality(DOMAIN written) = total_files
=============================================================================
